---- MODULE Spec2Model ----
(***************************************************************************)
(* A model of matcha.js: the per-slide progressive-disclosure state        *)
(* machine (models/fragment.js), the build pipeline and the navigation of  *)
(* the Matcha class (matcha.js), the component registry                    *)
(* (models/component.js) and the KaTeX readiness rebuild (models/math.js). *)
(*                                                                         *)
(* Text is modelled at token level: a cell's content is a sequence of      *)
(* tokens, each either a run of text (blank or not, holding a number of    *)
(* <highlight> marks) or a step marker <!-- step[:effect][,duration=N] --> *)
(***************************************************************************)
EXTENDS Integers, Sequences, FiniteSets, TLC

VARIABLES
    source,                 \* text of the source script tag (a deck)
    slidesElements,         \* Matcha.slidesElements: class of each slide element
    currentSlideIndex,      \* Matcha.currentSlideIndex
    slideStates,            \* Fragment.slideStates: index -> disclosure state
    components,             \* Component.components: name -> definition
    globalComponentUsages,  \* Matcha.globalComponentUsages
    slideComponentUsages,   \* Matcha.slideComponentUsages
    frames,                 \* pending requestAnimationFrame callbacks
    activeInstances,        \* Component.activeInstances: rendered component instances
    katex,                  \* MathSupport fields and the KaTeX script element
    globalVars,             \* Component.globalVars: name -> value
    instance,               \* Matcha.modules is populated; document listeners are bound
    hist                    \* history of the last operation (observation only)

vars == <<source, slidesElements, currentSlideIndex, slideStates, components,
          globalComponentUsages, slideComponentUsages, activeInstances, frames,
          katex, globalVars, instance, hist>>

-----------------------------------------------------------------------------
(* Bounds of the model *)

MaxChunks == 2
MaxHl == 2
MaxSlides == 2
MaxUsageCount == 2
MaxDefs == 1
MaxPairs == 2

(* Program constants *)

defaultEffect == "fade"
defaultDuration == 500
defaultPosition == "bottom-right"

-----------------------------------------------------------------------------
(* Tokens of a cell's content *)

Text(b, h) == [k |-> "text", blank |-> b, hl |-> h, effect |-> "", duration |-> 0]
\* a marker: its effect group ("" when it has none), whether it has a
\* duration group, and the number written there
StepWith(e, timed, d) ==
    [k |-> "step", blank |-> FALSE, hl |-> 0, effect |-> e, duration |-> d,
     timed |-> timed]
\* a marker that has a duration group unless d is 0
StepMarker(e, d) == StepWith(e, d # 0, d)
NoText == [k |-> "none", blank |-> TRUE, hl |-> 0, effect |-> "", duration |-> 0]
EmptyText == [k |-> "text", blank |-> TRUE, hl |-> 0, effect |-> "", duration |-> 0]

\* a || b on strings and on numbers
OrStr(a, b) == IF a = "" THEN b ELSE a
OrNum(a, b) == IF a = 0 THEN b ELSE a

\* String.prototype.trim() of a slice is non-empty
Trimmed(t) == t.k = "text" /\ ~t.blank

\* concatenation of two adjacent text slices
Join(a, b) == IF a.k = "none" THEN b
              ELSE Text(a.blank /\ b.blank, a.hl + b.hl)

Last(s) == s[Len(s)]

\* the element of a one-element set
Only(S) == CHOOSE x \in S : TRUE
SetLast(s, r) == [s EXCEPT ![Len(s)] = r]

-----------------------------------------------------------------------------
(* Fragment._countHighlights: number of matches of highlightPattern *)

_countHighlights(content) == content.hl

(* Fragment.parseAndRender, the marker loop: steps built so far, and the   *)
(* text slice content.slice(lastIndex, ...) read since the last marker     *)
RECURSIVE ScanSteps(_, _, _, _)
ScanSteps(content, i, steps, before) ==
    IF i > Len(content)
    THEN \* after the loop: the remaining content
         LET s1 == IF before.k # "none" /\ Trimmed(before)
                   THEN Append(steps,
                          [content |-> before,
                           effect |-> IF Len(steps) = 0 THEN defaultEffect
                                      ELSE OrStr(Last(steps).nextEffect, defaultEffect),
                           duration |-> IF Len(steps) = 0 THEN defaultDuration
                                        ELSE OrNum(Last(steps).nextDuration, defaultDuration),
                           nextEffect |-> "", nextDuration |-> 0])
                   ELSE steps
         IN  IF Len(s1) = 0
             THEN <<[content |-> IF before.k = "none" THEN EmptyText ELSE before,
                     effect |-> "none", duration |-> 0,
                     nextEffect |-> "", nextDuration |-> 0]>>
             ELSE s1
    ELSE LET t == content[i] IN
         IF t.k = "text"
         THEN ScanSteps(content, i + 1, steps, Join(before, t))
         ELSE LET s1 == IF before.k # "none" /\ Trimmed(before)
                        THEN Append(steps,
                               [content |-> before,
                                effect |-> IF Len(steps) = 0 THEN "none"
                                           ELSE OrStr(Last(steps).nextEffect, defaultEffect),
                                duration |-> IF Len(steps) = 0 THEN 0
                                             ELSE OrNum(Last(steps).nextDuration, defaultDuration),
                                nextEffect |-> "", nextDuration |-> 0])
                        ELSE steps
                  ne == OrStr(t.effect, defaultEffect)
                  nd == IF t.timed THEN t.duration ELSE defaultDuration
                  s2 == IF Len(s1) > 0
                        THEN SetLast(s1, [Last(s1) EXCEPT !.nextEffect = ne,
                                                          !.nextDuration = nd])
                        ELSE <<[content |-> EmptyText, effect |-> "none", duration |-> 0,
                                nextEffect |-> ne, nextDuration |-> nd]>>
              IN  ScanSteps(content, i + 1, s2, NoText)

RECURSIVE SumSeq(_)
SumSeq(s) == IF Len(s) = 0 THEN 0 ELSE s[1] + SumSeq(Tail(s))

(* Fragment.parseAndRender: the state it records for the slide index and   *)
(* the step blocks of the markup it returns                                *)
parseAndRender(content) ==
    LET steps == ScanSteps(content, 1, <<>>, NoText)
        validSteps == SelectSeq(steps, LAMBDA s : Trimmed(s.content))
        highlightsPerStep == [i \in 1..Len(validSteps) |->
                                 _countHighlights(validSteps[i].content)]
        totalMicroSteps == Len(validSteps) + SumSeq(highlightsPerStep)
    IN  [state |-> [currentStep |-> 1,
                    currentHighlight |-> 0,
                    totalSteps |-> Len(validSteps),
                    highlightsPerStep |-> highlightsPerStep,
                    totalMicroSteps |-> totalMicroSteps,
                    currentMicroStep |-> 1,
                    hasBlocks |-> FALSE,
                    blocks |-> <<>>,
                    focus |-> FALSE,
                    active |-> {}],
         html |-> [i \in 1..Len(validSteps) |->
                     [cls |-> IF i = 1 THEN {"step-visible"} ELSE {"step-hidden"},
                      effect |-> validSteps[i].effect,
                      duration |-> OrNum(validSteps[i].duration, defaultDuration),
                      highlights |-> _countHighlights(validSteps[i].content)]]]

(* Fragment.initSlide: blocks are the .matcha-step-block elements found in *)
(* the slide element; prior is slideStates[slideIndex] when it exists.     *)
(* The fields focus and active stand for the slide element's               *)
(* highlight-focus-mode class and for the highlight spans, as (block,      *)
(* index) pairs, that carry the highlight-active class                     *)
initSlide(hasPrior, prior, blocks) ==
    LET state == IF hasPrior THEN prior
                 ELSE [currentStep |-> 1, currentHighlight |-> 0,
                       totalSteps |-> Len(blocks), highlightsPerStep |-> <<>>,
                       totalMicroSteps |-> Len(blocks), currentMicroStep |-> 1,
                       hasBlocks |-> FALSE, blocks |-> <<>>,
                       focus |-> FALSE, active |-> {}]
    IN  [state EXCEPT
           !.hasBlocks = TRUE,
           !.totalSteps = Len(blocks),
           !.highlightsPerStep =
               IF Len(state.highlightsPerStep) = 0
               THEN [i \in 1..Len(blocks) |-> blocks[i].highlights]
               ELSE state.highlightsPerStep,
           !.blocks = [i \in 1..Len(blocks) |->
                         [blocks[i] EXCEPT !.cls =
                            IF i = 1
                            THEN (@ \cup {"step-visible"}) \ {"step-hidden", "step-entering"}
                            ELSE (@ \cup {"step-hidden"}) \ {"step-visible", "step-entering"}]]]

-----------------------------------------------------------------------------
(* Fragment.slideStates is a map from slide index to state *)

EmptyMap == [j \in {} |-> 0]
Has(states, i) == i \in DOMAIN states
Put(states, i, st) == [j \in DOMAIN states \cup {i} |-> IF j = i THEN st ELSE states[j]]

\* state.highlightsPerStep[state.currentStep - 1] || 0
HighlightsAt(st, step) ==
    IF step \in 1..Len(st.highlightsPerStep) THEN st.highlightsPerStep[step] ELSE 0

AddCls(b, c) == [b EXCEPT !.cls = @ \cup c]
RemCls(b, c) == [b EXCEPT !.cls = @ \ c]

\* a hasNextStep that answers true for an index without state
hasNextStep_MissingTrue(states, slideIndex) ==
    IF ~Has(states, slideIndex) THEN TRUE
    ELSE LET state == states[slideIndex] IN
         IF state.currentHighlight < HighlightsAt(state, state.currentStep)
         THEN TRUE
         ELSE state.currentStep < state.totalSteps

(* Fragment.hasSteps *)
hasSteps(states, slideIndex) ==
    Has(states, slideIndex) /\ states[slideIndex].totalMicroSteps > 1

\* a hasNextStep that looks at the blocks only
hasNextStep_BlocksOnly(states, slideIndex) ==
    Has(states, slideIndex)
        /\ states[slideIndex].currentStep < states[slideIndex].totalSteps

(* Fragment.hasNextStep *)
hasNextStep(states, slideIndex) ==
    IF ~Has(states, slideIndex) THEN FALSE
    ELSE LET state == states[slideIndex] IN
         IF state.currentHighlight < HighlightsAt(state, state.currentStep)
         THEN TRUE
         ELSE state.currentStep < state.totalSteps

(* Fragment.hasPrevStep *)
hasPrevStep(states, slideIndex) ==
    IF ~Has(states, slideIndex) THEN FALSE
    ELSE LET state == states[slideIndex] IN
         IF state.currentHighlight > 0 THEN TRUE
         ELSE state.currentStep > 1

(* Fragment.getStepState *)
getStepState(states, slideIndex) ==
    IF ~Has(states, slideIndex)
    THEN [current |-> 1, total |-> 1, highlight |-> 0,
          microStep |-> 0, totalMicroSteps |-> 0, isDefault |-> TRUE]
    ELSE LET state == states[slideIndex] IN
         [current |-> state.currentStep, total |-> state.totalSteps,
          highlight |-> state.currentHighlight,
          microStep |-> state.currentMicroStep,
          totalMicroSteps |-> state.totalMicroSteps, isDefault |-> FALSE]

(* Fragment._clearHighlightFocus *)
_clearHighlightFocus(state) == [state EXCEPT !.focus = FALSE, !.active = {}]

(* Fragment._activateHighlight on the index-th highlight span of a block;  *)
(* the span is undefined when the block has fewer spans, and reading       *)
(* classList of undefined throws a TypeError                               *)
_activateHighlight(state, block, index, isSwitching) ==
    LET defined == block \in 1..Len(state.blocks)
                   /\ index \in 1..state.blocks[block].highlights
    IN  IF defined
        THEN [state |-> [state EXCEPT !.focus = TRUE, !.active = {<<block, index>>}],
              threw |-> FALSE]
        ELSE IF isSwitching
        THEN [state |-> [state EXCEPT !.focus = TRUE], threw |-> TRUE]
        ELSE [state |-> [state EXCEPT !.focus = TRUE, !.active = {}], threw |-> TRUE]

(* Fragment.resetSlide *)
resetSlide(states, slideIndex) ==
    IF ~Has(states, slideIndex) \/ ~states[slideIndex].hasBlocks THEN states
    ELSE LET state == states[slideIndex] IN
         Put(states, slideIndex,
             [_clearHighlightFocus(state) EXCEPT
                !.currentStep = 1,
                !.currentHighlight = 0,
                !.currentMicroStep = 1,
                !.blocks = [i \in 1..Len(state.blocks) |->
                    IF i = 1
                    THEN RemCls(AddCls(RemCls(state.blocks[i], {"step-entering"}),
                                       {"step-visible"}), {"step-hidden"})
                    ELSE RemCls(AddCls(RemCls(state.blocks[i], {"step-entering"}),
                                       {"step-hidden"}), {"step-visible"})]])

(* Fragment.showAllSteps *)
showAllSteps(states, slideIndex) ==
    IF ~Has(states, slideIndex) \/ ~states[slideIndex].hasBlocks THEN states
    ELSE LET state == states[slideIndex] IN
         Put(states, slideIndex,
             [_clearHighlightFocus(state) EXCEPT
                !.currentStep = state.totalSteps,
                !.currentHighlight = 0,
                !.currentMicroStep = state.totalMicroSteps,
                !.blocks = [i \in 1..Len(state.blocks) |->
                    AddCls(RemCls(state.blocks[i], {"step-hidden", "step-entering"}),
                           {"step-visible"})]])

(* Fragment.nextStep: the new map, the value returned (or that it threw),  *)
(* and the block whose reveal it hands to requestAnimationFrame (0 when    *)
(* none)                                                                   *)
nextStep(states, slideIndex) ==
    IF ~Has(states, slideIndex) \/ ~states[slideIndex].hasBlocks
    THEN [states |-> states, ret |-> FALSE, threw |-> FALSE, raf |-> 0]
    ELSE LET state == states[slideIndex]
             highlightsInCurrentStep == HighlightsAt(state, state.currentStep)
         IN
         IF state.currentHighlight < highlightsInCurrentStep
         THEN LET isSwitching == state.currentHighlight > 0
                  stepped == [state EXCEPT !.currentHighlight = @ + 1,
                                           !.currentMicroStep = @ + 1]
                  hasBlock == state.currentStep \in 1..Len(state.blocks)
                  hasSpan == hasBlock /\ stepped.currentHighlight
                                 \in 1..state.blocks[state.currentStep].highlights
                  lit == IF hasSpan
                         THEN _activateHighlight(stepped, state.currentStep,
                                                 stepped.currentHighlight,
                                                 isSwitching).state
                         ELSE stepped
              IN  [states |-> Put(states, slideIndex, lit),
                   ret |-> TRUE, threw |-> ~hasBlock, raf |-> 0]
         ELSE IF state.currentStep >= state.totalSteps
         THEN [states |-> states, ret |-> FALSE, threw |-> FALSE, raf |-> 0]
         ELSE LET cleared == _clearHighlightFocus(state) IN
              IF state.currentStep + 1 \in 1..Len(state.blocks)
              THEN LET moved ==
                         [cleared EXCEPT
                            !.blocks[state.currentStep + 1] =
                                AddCls(RemCls(@, {"step-hidden"}), {"step-entering"}),
                            !.currentStep = @ + 1,
                            !.currentHighlight = 0,
                            !.currentMicroStep = @ + 1]
                       after == Put(states, slideIndex, moved)
                   IN  [states |-> after, ret |-> hasNextStep(after, slideIndex),
                        threw |-> FALSE, raf |-> state.currentStep + 1]
              ELSE LET after == Put(states, slideIndex, cleared)
                   IN  [states |-> after, ret |-> hasNextStep(after, slideIndex),
                        threw |-> FALSE, raf |-> 0]

\* a retreat that leaves the chunk it enters highlight-free
RetreatHighlight_None(currentHighlight, prevHighlights) == 0

(* Fragment.prevStep, the highlight cursor after retreating into a chunk   *)
(* with prevHighlights highlights                                          *)
RetreatHighlight(currentHighlight, prevHighlights) ==
    IF prevHighlights > 0 THEN prevHighlights ELSE currentHighlight

(* Fragment.prevStep: the new map and the value returned (or that it threw) *)
prevStep(states, slideIndex) ==
    IF ~Has(states, slideIndex) \/ ~states[slideIndex].hasBlocks
    THEN [states |-> states, ret |-> FALSE, threw |-> FALSE]
    ELSE LET state == states[slideIndex] IN
         IF state.currentHighlight > 0
         THEN LET stepped == [state EXCEPT !.currentHighlight = @ - 1,
                                           !.currentMicroStep = @ - 1]
                  lit == IF stepped.currentHighlight > 0
                         THEN _activateHighlight(stepped, state.currentStep,
                                                 stepped.currentHighlight, TRUE)
                         ELSE [state |-> _clearHighlightFocus(stepped), threw |-> FALSE]
              IN  [states |-> Put(states, slideIndex, lit.state),
                   ret |-> TRUE, threw |-> lit.threw]
         ELSE IF state.currentStep <= 1
         THEN [states |-> states, ret |-> FALSE, threw |-> FALSE]
         ELSE IF state.currentStep \in 1..Len(state.blocks)
         THEN LET prevHighlights == HighlightsAt(state, state.currentStep - 1)
                  moved ==
                    [state EXCEPT
                       !.blocks[state.currentStep] =
                           AddCls(RemCls(@, {"step-visible"}), {"step-hidden"}),
                       !.currentStep = @ - 1,
                       !.currentMicroStep = @ - 1,
                       !.currentHighlight = RetreatHighlight(@, prevHighlights)]
                  lit == IF prevHighlights > 0
                         THEN _activateHighlight(moved, moved.currentStep,
                                                 moved.currentHighlight, FALSE)
                         ELSE [state |-> moved, threw |-> FALSE]
                  after == Put(states, slideIndex, lit.state)
              IN  [states |-> after, ret |-> hasPrevStep(after, slideIndex),
                   threw |-> lit.threw]
         ELSE [states |-> states, ret |-> hasPrevStep(states, slideIndex),
               threw |-> FALSE]

-----------------------------------------------------------------------------
(* Strings of directive parameters and of component templates, as          *)
(* sequences of lexemes: a word ([\w-]+), a single other character, or a   *)
(* template construct {{name}}, {{#kind arg value}}, {{#else}}, {{/kind}}. *)
(* Two words are never adjacent in a string.                               *)

W(s) == [b |-> "", k |-> "w", a |-> s, c |-> <<>>]
P(s) == [b |-> "", k |-> "p", a |-> s, c |-> <<>>]
Var(name) == [b |-> "", k |-> "var", a |-> name, c |-> <<>>]
\* value is itself a string, empty when the opener has one argument
Open(kind, arg, value) == [b |-> arg, k |-> "open", a |-> kind, c |-> value]
Else == [b |-> "", k |-> "else", a |-> "", c |-> <<>>]
Close(kind) == [b |-> "", k |-> "close", a |-> kind, c |-> <<>>]

-----------------------------------------------------------------------------
(* Documents.  A deck is the text of the source script: the definitions    *)
(* and usage markers before the ---global line, the definitions found in   *)
(* the slides section, and the slide blocks between --- lines.  A slide    *)
(* block holds usage markers, an optional layout directive ("" when there  *)
(* is none) and the cells that +++ / === lines separate.                   *)

Def(n, t, p) == [name |-> n, template |-> t, position |-> p]
\* a usage marker <!-- @name: params -->, with its parameter string
UseWith(n, ps) == [k |-> "use", name |-> n, params |-> ps]
\* a marker with a position parameter only ("" when it has none)
Use(n, p) == UseWith(n, IF p = "" THEN <<>> ELSE <<W("position"), P("="), W(p)>>)
Slide(l, u, c) == [layout |-> l, uses |-> u, cells |-> c]
Deck(gd, gu, sd, sl) == [gdefs |-> gd, guses |-> gu, sdefs |-> sd, slides |-> sl]

Separator == Text(FALSE, 0)

RECURSIVE WholeBlock(_)
WholeBlock(cells) ==
    IF Len(cells) = 0 THEN <<>>
    ELSE IF Len(cells) = 1 THEN cells[1]
    ELSE cells[1] \o <<Separator>> \o WholeBlock(Tail(cells))

\* block.trim() is empty: nothing but whitespace in the slide block
BlankBlock(slide) ==
    /\ slide.layout = ""
    /\ Len(slide.uses) = 0
    /\ Len(slide.cells) <= 1
    /\ \A i \in 1..Len(slide.cells) :
         \A j \in 1..Len(slide.cells[i]) :
            slide.cells[i][j].k = "text" /\ slide.cells[i][j].blank

-----------------------------------------------------------------------------
(* MathSupport (models/math.js).  katex is the record                      *)
(*   window    : window.katex is defined                                   *)
(*   script    : the #matcha-katex-js element: none, loading, loaded,      *)
(*               failed                                                    *)
(*   listeners : load listeners added to the script element                *)
(*   thens     : continuations waiting on the pending ready promise        *)
(*   resolved  : the ready promise is resolved                             *)
(*   resolver  : _readyResolver is not null                                *)
(*   scheduled : _rerenderScheduled                                        *)
(*   micro     : continuations in the microtask queue                      *)
(*   dispatch  : load listeners the running load event has yet to call     *)
(*   rebuilds  : rebuilds performed by readiness callbacks (observation)   *)

\* this._readyResolver(): resolving queues the waiting continuations
Resolve(k) ==
    IF k.resolver /\ ~k.resolved
    THEN [k EXCEPT !.resolved = TRUE, !.micro = @ + k.thens, !.thens = 0]
    ELSE k

(* MathSupport._checkAndLoadKatex *)
_checkAndLoadKatex(k) ==
    IF k.window
    THEN [Resolve(k) EXCEPT !.resolver = FALSE]
    ELSE IF k.script # "none"
    THEN [k EXCEPT !.listeners = @ + 1]
    ELSE [k EXCEPT !.script = "loading"]

(* MathSupport.postprocess, its effect on the readiness machinery *)
postprocess(k) ==
    IF ~k.window
    THEN LET k1 == _checkAndLoadKatex(k) IN
         IF k1.resolved THEN [k1 EXCEPT !.micro = @ + 1]
         ELSE [k1 EXCEPT !.thens = @ + 1]
    ELSE k

\* MathSupport.postprocess, called once for each step block rendered
RECURSIVE PostprocessEach(_, _)
PostprocessEach(k, n) == IF n = 0 THEN k ELSE PostprocessEach(postprocess(k), n - 1)

\* an _onKatexReady without the _rerenderScheduled flag
_onKatexReady_NoFlag(k, fr) ==
    [katex |-> [k EXCEPT !.scheduled = TRUE],
     frames |-> [fr EXCEPT !.rerender = @ + 1]]

(* MathSupport._onKatexReady: the katex record and the number of rerender  *)
(* callbacks handed to requestAnimationFrame                               *)
_onKatexReady(k, fr) ==
    IF k.scheduled THEN [katex |-> k, frames |-> fr]
    ELSE [katex |-> [k EXCEPT !.scheduled = TRUE],
          frames |-> [fr EXCEPT !.rerender = @ + 1]]

-----------------------------------------------------------------------------
(* The parameter parsers of the directives *)

\* \s
IsSpace(t) == t.k = "p" /\ t.a = " "

\* [^,\s]: an opener holds a space and cannot be part of an unquoted value
IsBare(t) == ~(t.k = "p" /\ t.a \in {",", " "}) /\ t.k # "open"

\* \s* from position i: the first position that holds no space
RECURSIVE NextNonSpace(_, _)
NextNonSpace(str, i) ==
    IF i > Len(str) \/ ~IsSpace(str[i]) THEN i ELSE NextNonSpace(str, i + 1)

\* [^"]*" from position i: the position of the next quote q, 0 when none
RECURSIVE FindQuote(_, _, _)
FindQuote(str, i, q) ==
    IF i > Len(str) THEN 0
    ELSE IF str[i] = P(q) THEN i
    ELSE FindQuote(str, i + 1, q)

\* [^,\s]+ from position i: the position after the run
RECURSIVE BareEnd(_, _)
BareEnd(str, i) ==
    IF i > Len(str) \/ ~IsBare(str[i]) THEN i ELSE BareEnd(str, i + 1)

NoMatch == [ok |-> FALSE, key |-> "", value |-> <<>>, end |-> 0]

\* One match, starting at position i, of the pattern of _parseParams:
\* a key [\w-]+, \s*=\s*, then a double-quoted, a single-quoted or a bare value
ParamMatchAt(str, i) ==
    IF str[i].k # "w" THEN NoMatch
    ELSE LET e == NextNonSpace(str, i + 1) IN
         IF e > Len(str) \/ str[e] # P("=") THEN NoMatch
         ELSE LET v == NextNonSpace(str, e + 1) IN
              IF v > Len(str) THEN NoMatch
              ELSE LET close == IF str[v] = P("\"") THEN FindQuote(str, v + 1, "\"")
                                ELSE IF str[v] = P("'") THEN FindQuote(str, v + 1, "'")
                                ELSE 0
                       bare == BareEnd(str, v)
                   IN  IF close # 0
                       THEN [ok |-> TRUE, key |-> str[i].a,
                             value |-> SubSeq(str, v + 1, close - 1), end |-> close + 1]
                       ELSE IF bare > v
                       THEN [ok |-> TRUE, key |-> str[i].a,
                             value |-> SubSeq(str, v, bare - 1), end |-> bare]
                       ELSE NoMatch

\* the regex.exec loop of _parseParams, from lastIndex i
RECURSIVE ParamsFrom(_, _, _)
ParamsFrom(str, i, params) ==
    IF i > Len(str) THEN params
    ELSE IF ParamMatchAt(str, i).ok
    THEN ParamsFrom(str, ParamMatchAt(str, i).end,
                    Put(params, ParamMatchAt(str, i).key, ParamMatchAt(str, i).value))
    ELSE ParamsFrom(str, i + 1, params)

(* Component._parseParams (Image._parseParams is the same code) *)
_parseParams(paramStr) == ParamsFrom(paramStr, 1, EmptyMap)

\* String.prototype.split(sep) on a one-character separator
RECURSIVE Split(_, _)
Split(str, sep) ==
    IF Len(str) = 0 THEN <<<<>>>>
    ELSE LET rest == Split(Tail(str), sep) IN
         IF str[1] = P(sep) THEN <<<<>>>> \o rest
         ELSE <<<<str[1]>> \o rest[1]>> \o Tail(rest)

\* String.prototype.trim()
RECURSIVE Trim(_)
Trim(str) ==
    IF Len(str) = 0 THEN str
    ELSE IF IsSpace(str[1]) THEN Trim(Tail(str))
    ELSE IF IsSpace(str[Len(str)]) THEN Trim(SubSeq(str, 1, Len(str) - 1))
    ELSE str

\* the forEach of Card._parseParams over the pairs
RECURSIVE CardPairs(_, _)
CardPairs(pairs, params) ==
    IF Len(pairs) = 0 THEN params
    ELSE LET parts == Split(pairs[1], "=")
             key == Trim(parts[1])
             given == Len(parts) >= 2 /\ Len(Trim(parts[2])) > 0
         IN  CardPairs(Tail(pairs),
                       IF Len(key) > 0 /\ given
                       THEN Put(params, key, Trim(parts[2])) ELSE params)

(* Card._parseParams: keys are whole trimmed strings *)
Card_parseParams(paramStr) ==
    IF Len(paramStr) = 0 THEN EmptyMap
    ELSE CardPairs(Split(paramStr, ","), EmptyMap)

(* A line of the text Card.parse reads: whether it matches the card        *)
(* pattern and the endcard pattern (neither is anchored, so a line may     *)
(* match both and may hold text around a marker), the parameter string of  *)
(* its card marker, and the line as written                                *)
Line(card, endcard, params, text) ==
    [k |-> "line", card |-> card, endcard |-> endcard, params |-> params,
     text |-> text]

\* the opening wrapper <div class=... style=...>, built from the
\* parameters, and the closing wrapper </div>
CardOpen(params) == [k |-> "open", card |-> FALSE, endcard |-> FALSE,
                     params |-> params, text |-> ""]
CardClose == [k |-> "close", card |-> FALSE, endcard |-> FALSE,
              params |-> EmptyMap, text |-> ""]

\* a card marker that leaves the open card open
CardLine_Nested(acc, line) ==
    IF line.card
    THEN [result |-> Append(acc.result, CardOpen(Card_parseParams(line.params))),
          inCard |-> TRUE]
    ELSE IF line.endcard
    THEN IF acc.inCard
         THEN [result |-> Append(acc.result, CardClose), inCard |-> FALSE]
         ELSE acc
    ELSE [acc EXCEPT !.result = Append(@, line)]

\* Card.parse, one turn of the loop over the lines
CardLine(acc, line) ==
    IF line.card
    THEN [result |-> Append(IF acc.inCard THEN Append(acc.result, CardClose)
                            ELSE acc.result,
                            CardOpen(Card_parseParams(line.params))),
          inCard |-> TRUE]
    ELSE IF line.endcard
    THEN IF acc.inCard
         THEN [result |-> Append(acc.result, CardClose), inCard |-> FALSE]
         ELSE acc
    ELSE [acc EXCEPT !.result = Append(@, line)]

RECURSIVE CardLines(_, _, _)
CardLines(lines, i, acc) ==
    IF i > Len(lines) THEN acc
    ELSE Only({CardLines(lines, i + 1, a) : a \in {CardLine(acc, lines[i])}})

(* Card.parse: the lines of the result *)
Card_parse(lines) ==
    LET done == CardLines(lines, 1, [result |-> <<>>, inCard |-> FALSE])
    IN  Only({IF d.inCard THEN Append(d.result, CardClose) ELSE d.result :
              d \in {done}})

-----------------------------------------------------------------------------
(* The template engine of Component: six construct passes, each one        *)
(* String.prototype.replace with a global pattern, then the variables;     *)
(* vs is the variable context the code calls vars                          *)

\* the characters of a string
RECURSIVE Str(_)
Str(str) ==
    IF Len(str) = 0 THEN ""
    ELSE LET t == str[1]
             text == IF t.k \in {"w", "p"} THEN t.a
                     ELSE IF t.k = "var" THEN "{{" \o t.a \o "}}"
                     ELSE IF t.k = "else" THEN "{{#else}}"
                     ELSE IF t.k = "close" THEN "{{/" \o t.a \o "}}"
                     ELSE IF Len(t.c) = 0 THEN "{{#" \o t.a \o " " \o t.b \o "}}"
                     ELSE "{{#" \o t.a \o " " \o t.b \o " " \o Str(t.c) \o "}}"
         IN  text \o Str(Tail(str))

\* String(n) of a number, as the string a template receives
Num(n) == <<W(ToString(n))>>

\* the numbers templates count with
MaxNum == 9

\* parseInt and Number give NaN on a text that holds no number
NaN == -99

\* parseInt(text) on a text that is a run of digits, -1, or holds no number
parseInt(text) ==
    IF \E n \in -1..MaxNum : ToString(n) = text
    THEN CHOOSE n \in -1..MaxNum : ToString(n) = text
    ELSE NaN

\* Number(text): the empty text is 0
Number(text) == IF text = "" THEN 0 ELSE parseInt(text)

\* value.trim().replace(/^["']|["']$/g, "")
StripQuotes(str) ==
    LET t == Trim(str)
        from == IF Len(t) > 0 /\ t[1] \in {P("\""), P("'")} THEN 2 ELSE 1
        to == IF Len(t) >= from /\ t[Len(t)] \in {P("\""), P("'")}
              THEN Len(t) - 1 ELSE Len(t)
    IN  SubSeq(t, from, to)

\* the first position from i on that holds the lexeme t, 0 when none
RECURSIVE Find(_, _, _)
Find(str, i, t) ==
    IF i > Len(str) THEN 0
    ELSE IF str[i] = t THEN i
    ELSE Find(str, i + 1, t)

\* [\w$]+ and \d+: every argument but those that hold a character outside
\* the class, of which the model writes -1
IsName(text) == text # "-1"

\* the opener part of the six patterns: the first argument is [\w$]+,
\* {{#repeat n}} and {{#if v}} take one argument, {{#eq v x}} and
\* {{#neq v x}} a second one, {{#gt v n}} and {{#lt v n}} a run of digits
Opens(kind, t) ==
    /\ t.k = "open"
    /\ t.a = kind
    /\ IsName(t.b)
    /\ CASE kind \in {"repeat", "if"} -> Len(t.c) = 0
         [] kind \in {"eq", "neq"} -> Len(t.c) > 0
         [] OTHER -> Len(t.c) = 1 /\ t.c[1].k = "w" /\ parseInt(t.c[1].a) >= 0

\* the last pass of _renderTemplate: defined variables are replaced by
\* their values, the other placeholders stay
RECURSIVE ReplaceVars(_, _)
ReplaceVars(template, vs) ==
    IF Len(template) = 0 THEN <<>>
    ELSE LET t == template[1] IN
         (IF t.k = "var" /\ Has(vs, t.a) THEN vs[t.a] ELSE <<t>>)
             \o ReplaceVars(Tail(template), vs)

RECURSIVE _renderTemplate(_, _)
RECURSIVE RepeatBody(_, _, _, _)
RECURSIVE Replacement(_, _, _, _, _)
RECURSIVE ProcessFrom(_, _, _, _)

\* loop bindings that count both from 1
loopVars_BothFromOne(vs, i) == Put(Put(vs, "$i", Num(i + 1)), "$i0", Num(i + 1))

\* { ...vars, $i: i + 1, $i0: i }
loopVars(vs, i) == Put(Put(vs, "$i", Num(i + 1)), "$i0", Num(i))

\* the for loop of _processRepeat
RepeatBody(content, vs, i, count) ==
    IF i >= count THEN <<>>
    ELSE Only({_renderTemplate(content, lv) : lv \in {loopVars(vs, i)}})
             \o RepeatBody(content, vs, i + 1, count)

\* the replacer callbacks of the six passes
Replacement(kind, open, content, falseContent, vs) ==
    LET given == Has(vs, open.b)
        actual == IF given THEN Str(vs[open.b]) ELSE ""
        compare == Str(StripQuotes(open.c))
    IN  CASE kind = "repeat" ->
               LET c0 == parseInt(open.b)
                   count == IF c0 = NaN /\ given THEN parseInt(actual) ELSE c0
               IN  IF count = NaN \/ count <= 0 THEN <<>>
                   ELSE RepeatBody(content, vs, 0, count)
          [] kind = "eq" ->
               IF actual = compare THEN _renderTemplate(content, vs) ELSE <<>>
          [] kind = "neq" ->
               IF actual # compare THEN _renderTemplate(content, vs) ELSE <<>>
          [] kind = "if" ->
               IF given /\ actual \notin {"", "0", "false"}
               THEN _renderTemplate(content, vs)
               ELSE _renderTemplate(falseContent, vs)
          [] kind = "gt" ->
               IF Number(actual) # NaN /\ Number(actual) > Number(compare)
               THEN _renderTemplate(content, vs) ELSE <<>>
          [] kind = "lt" ->
               IF Number(actual) # NaN /\ Number(actual) < Number(compare)
               THEN _renderTemplate(content, vs) ELSE <<>>

\* template.replace(pattern, replacer) from position i: an opener matches
\* with the first closer of its kind that follows it ([\s\S]*?), for
\* {{#if}} split at the first {{#else}} in between; the search goes on
\* after the closer, the replacement is not searched
ProcessFrom(kind, template, i, vs) ==
    IF i > Len(template) THEN <<>>
    ELSE LET j == IF Opens(kind, template[i])
                  THEN Find(template, i + 1, Close(kind)) ELSE 0
         IN  IF j = 0
             THEN <<template[i]>> \o ProcessFrom(kind, template, i + 1, vs)
             ELSE LET e == IF kind = "if"
                           THEN Find(SubSeq(template, 1, j - 1), i + 1, Else)
                           ELSE 0
                      content == SubSeq(template, i + 1, (IF e = 0 THEN j ELSE e) - 1)
                      falseContent == IF e = 0 THEN <<>>
                                      ELSE SubSeq(template, e + 1, j - 1)
                  IN  Only({Replacement(kind, template[i], c, f, vs) :
                               c \in {content}, f \in {falseContent}})
                          \o ProcessFrom(kind, template, j + 1, vs)

_processRepeat(template, vs) == ProcessFrom("repeat", template, 1, vs)
_processEq(template, vs) == ProcessFrom("eq", template, 1, vs)
_processNeq(template, vs) == ProcessFrom("neq", template, 1, vs)
_processIf(template, vs) == ProcessFrom("if", template, 1, vs)
_processGt(template, vs) == ProcessFrom("gt", template, 1, vs)
_processLt(template, vs) == ProcessFrom("lt", template, 1, vs)

(* Component._renderTemplate *)
_renderTemplate(template, vs) ==
    Only({ReplaceVars(r6, vs) :
          r6 \in {_processLt(r5, vs) :
          r5 \in {_processGt(r4, vs) :
          r4 \in {_processIf(r3, vs) :
          r3 \in {_processNeq(r2, vs) :
          r2 \in {_processEq(r1, vs) :
          r1 \in {_processRepeat(template, vs)}}}}}}})

-----------------------------------------------------------------------------
(* Component (models/component.js) *)

(* Component.extractDefinitions: the registry after the define blocks *)
RECURSIVE extractDefinitions(_, _)
extractDefinitions(comps, defs) ==
    IF Len(defs) = 0 THEN comps
    ELSE LET d == defs[1]
             c == [name |-> d.name, template |-> d.template,
                   position |-> OrStr(d.position, defaultPosition),
                   usageCount |-> 0]
         IN  extractDefinitions(Put(comps, d.name, c), Tail(defs))

\* a usage that keeps the position of the definition
UsageOf_DefinitionPosition(component, paramsStr, slideIndex, totalSlides) ==
    [name |-> component.name,
     params |-> _parseParams(paramsStr),
     position |-> component.position,
     slideIndex |-> slideIndex,
     totalSlides |-> totalSlides]

\* Component.processSlide, the usage recorded for the marker of a
\* registered component
UsageOf(component, paramsStr, slideIndex, totalSlides) ==
    LET params == _parseParams(paramsStr)
        own == IF Has(params, "position") THEN Str(params["position"]) ELSE ""
    IN  [name |-> component.name,
         params |-> params,
         position |-> OrStr(own, component.position),
         slideIndex |-> slideIndex,
         totalSlides |-> totalSlides]

(* Component.processSlide: content.replace(usePattern, ...) over content   *)
(* that holds usage markers among its other tokens                         *)
RECURSIVE processSlide(_, _, _, _)
processSlide(comps, content, slideIndex, totalSlides) ==
    IF Len(content) = 0 THEN [cleanContent |-> <<>>, componentUsages |-> <<>>]
    ELSE LET u == content[1]
             rest == processSlide(comps, Tail(content), slideIndex, totalSlides)
         IN  IF u.k # "use" THEN [rest EXCEPT !.cleanContent = <<u>> \o @]
             ELSE IF ~Has(comps, u.name) THEN rest
             ELSE [rest EXCEPT !.componentUsages =
                      <<UsageOf(comps[u.name], u.params, slideIndex, totalSlides)>>
                          \o @]

\* processSlide over a slide block: the markers before the cells, then
\* the cells in order
RECURSIVE ProcessCells(_, _, _, _)
ProcessCells(comps, cells, slideIndex, totalSlides) ==
    IF Len(cells) = 0 THEN [cleanCells |-> <<>>, componentUsages |-> <<>>]
    ELSE LET first == processSlide(comps, cells[1], slideIndex, totalSlides)
             rest == ProcessCells(comps, Tail(cells), slideIndex, totalSlides)
         IN  [cleanCells |-> <<first.cleanContent>> \o rest.cleanCells,
              componentUsages |-> first.componentUsages \o rest.componentUsages]

ProcessBlock(comps, slide, slideIndex, totalSlides) ==
    LET head == processSlide(comps, slide.uses, slideIndex, totalSlides)
        body == ProcessCells(comps, slide.cells, slideIndex, totalSlides)
    IN  [cleanBlock |-> [slide EXCEPT !.uses = head.cleanContent,
                                      !.cells = body.cleanCells],
         componentUsages |-> head.componentUsages \o body.componentUsages]

\* { ...a, ...b }
Merge(a, b) ==
    [key \in DOMAIN a \cup DOMAIN b |-> IF key \in DOMAIN b THEN b[key] ELSE a[key]]

\* the variables renderComponents sets for the slide
builtinVars(slideIndex, totalSlides) ==
    Put(Put(Put(EmptyMap, "$slideIndex", Num(slideIndex)),
            "$slideNumber", Num(slideIndex + 1)),
        "$totalSlides", Num(totalSlides))

\* the variable context of one usage
allVars(gvars, slideIndex, totalSlides, usage) ==
    Merge(Merge(builtinVars(slideIndex, totalSlides), gvars), usage.params)

(* Component.renderComponents: the instances shown, each with the          *)
(* variable context and the text its template was expanded to, and the     *)
(* registry with the usage counters advanced                               *)
RECURSIVE renderComponents(_, _, _, _, _)
renderComponents(comps, gvars, slideIndex, totalSlides, usages) ==
    IF Len(usages) = 0 THEN [components |-> comps, instances |-> <<>>]
    ELSE LET u == usages[1] IN
         IF ~Has(comps, u.name)
         THEN renderComponents(comps, gvars, slideIndex, totalSlides, Tail(usages))
         ELSE LET c1 == [comps EXCEPT ![u.name].usageCount =
                            IF @ < MaxUsageCount THEN @ + 1 ELSE @]
              IN  Only({[components |-> r.components,
                         instances |-> <<[name |-> u.name, position |-> u.position,
                                          vars |-> vs,
                                          content |-> _renderTemplate(
                                                          comps[u.name].template, vs)]>>
                                           \o r.instances] :
                        r \in {renderComponents(c1, gvars, slideIndex, totalSlides,
                                                Tail(usages))},
                        vs \in {allVars(gvars, slideIndex, totalSlides, u)}})

(* Component.setGlobalVar *)
setGlobalVar(m, name, value) == [m EXCEPT !.globalVars = Put(@, name, value)]

-----------------------------------------------------------------------------
(* Layout.buildLayout with the render function of Matcha.parseAndBuild:    *)
(* the contents handed one by one to Fragment.parseAndRender               *)
buildLayout(slide) ==
    IF slide.layout \in {"cols", "rows", "grid"} /\ Len(slide.cells) > 1
    THEN slide.cells
    ELSE <<WholeBlock(slide.cells)>>

RECURSIVE ConcatHtml(_)
ConcatHtml(renders) ==
    IF Len(renders) = 0 THEN <<>>
    ELSE renders[1].html \o ConcatHtml(Tail(renders))

(* One slide of Matcha.parseAndBuild: every cell is rendered by its own    *)
(* parseAndRender call, each recording slideStates[slideIndex] anew, then  *)
(* initSlide reads the step blocks of the whole slide element              *)
BuildSlide(states, slideIndex, slide) ==
    LET cells == buildLayout(slide)
        renders == [i \in 1..Len(cells) |-> parseAndRender(cells[i])]
        recorded == Put(states, slideIndex, renders[Len(cells)].state)
        blocks == ConcatHtml(renders)
    IN  [states |-> Put(recorded, slideIndex,
                        initSlide(Has(recorded, slideIndex),
                                  recorded[slideIndex], blocks)),
         rendered |-> Len(blocks)]

\* The Matcha instance with its modules, as one record
App == [slidesElements |-> slidesElements,
        currentSlideIndex |-> currentSlideIndex,
        slideStates |-> slideStates,
        components |-> components,
        globalComponentUsages |-> globalComponentUsages,
        slideComponentUsages |-> slideComponentUsages,
        activeInstances |-> activeInstances,
        katex |-> katex,
        globalVars |-> globalVars,
        instance |-> instance]

\* Matcha.parseAndBuild, one turn of the forEach over the slide blocks:
\* p is what processSlide returned for the block
SlideBuilt(m, p, slideIndex) ==
    Only({[m EXCEPT
             !.slideComponentUsages = Append(@, p.componentUsages),
             !.slideStates = b.states,
             !.katex = PostprocessEach(@, b.rendered),
             !.slidesElements = Append(@, {})] :
          b \in {BuildSlide(m.slideStates, slideIndex, p.cleanBlock)}})

RECURSIVE BuildSlides(_, _, _, _)
BuildSlides(m, comps, slideBlocks, slideIndex) ==
    IF slideIndex >= Len(slideBlocks) THEN m
    ELSE Only({BuildSlides(m1, comps, slideBlocks, slideIndex + 1) :
               m1 \in {SlideBuilt(m, p, slideIndex) :
                          p \in {ProcessBlock(comps, slideBlocks[slideIndex + 1],
                                              slideIndex, Len(slideBlocks))}}})

(* Matcha.parseAndBuild *)
parseAndBuild(m, markdown) ==
    LET c1 == extractDefinitions(m.components, markdown.gdefs)
        globalUsages == processSlide(c1, markdown.guses, 0, 0).componentUsages
        c2 == extractDefinitions(c1, markdown.sdefs)
        slideBlocks == SelectSeq(markdown.slides, LAMBDA b : ~BlankBlock(b))
        m0 == [m EXCEPT !.slidesElements = <<>>,
                        !.slideComponentUsages = <<>>,
                        !.globalComponentUsages = globalUsages,
                        !.components = c2]
    IN  Only({BuildSlides(cleared, comps, blocks, 0) :
              cleared \in {m0}, comps \in {c2}, blocks \in {slideBlocks}})

\* a goto that resets the slide whatever the direction
EnterSlide_AlwaysReset(states, index, direction) == resetSlide(states, index)

\* a goto that resets every slide
EnterSlide_EverySlide(states, index, direction) ==
    [j \in DOMAIN states |-> resetSlide(states, j)[j]]

\* Matcha.goto, the step state of the slide it enters
EnterSlide(states, index, direction) ==
    IF direction = "forward" THEN resetSlide(states, index)
    ELSE showAllSteps(states, index)

\* Matcha.goto past its range check
Activate(m, index, direction) ==
         LET n == Len(m.slidesElements)
             globalUsages == [i \in 1..Len(m.globalComponentUsages) |->
                                [m.globalComponentUsages[i] EXCEPT
                                    !.slideIndex = index, !.totalSlides = n]]
             slideUsages == IF index + 1 \in 1..Len(m.slideComponentUsages)
                            THEN m.slideComponentUsages[index + 1] ELSE <<>>
         IN  Only({[m EXCEPT
                !.currentSlideIndex = index,
                !.slidesElements = [i \in 1..n |->
                    IF i - 1 = index THEN (m.slidesElements[i] \cup {"active"}) \ {"past"}
                    ELSE IF i - 1 < index
                         THEN (m.slidesElements[i] \cup {"past"}) \ {"active"}
                         ELSE m.slidesElements[i] \ {"active", "past"}],
                !.slideStates = EnterSlide(m.slideStates, index, direction),
                !.components = r.components,
                !.activeInstances = r.instances] :
                   r \in {renderComponents(m.components, m.globalVars, index, n,
                                           globalUsages \o slideUsages)}})

\* a goto without the range check
goto_Unchecked(m, index, direction) == Activate(m, index, direction)

(* Matcha.goto *)
goto(m, index, direction) ==
    IF index < 0 \/ index >= Len(m.slidesElements) THEN m
    ELSE Activate(m, index, direction)

(* Matcha.next: the instance afterwards and the reveal handed to           *)
(* requestAnimationFrame (block 0 when none)                               *)
next(m) ==
    LET currentIndex == m.currentSlideIndex IN
    IF hasNextStep(m.slideStates, currentIndex)
    THEN LET r == nextStep(m.slideStates, currentIndex) IN
         [m |-> [m EXCEPT !.slideStates = r.states],
          raf |-> <<currentIndex, r.raf>>]
    ELSE IF currentIndex < Len(m.slidesElements) - 1
    THEN [m |-> goto(m, currentIndex + 1, "forward"), raf |-> <<currentIndex, 0>>]
    ELSE [m |-> m, raf |-> <<currentIndex, 0>>]

(* Matcha.prev *)
prev(m) ==
    LET currentIndex == m.currentSlideIndex IN
    IF hasPrevStep(m.slideStates, currentIndex)
    THEN [m EXCEPT !.slideStates = prevStep(m.slideStates, currentIndex).states]
    ELSE IF currentIndex > 0
    THEN goto(m, currentIndex - 1, "backward")
    ELSE m

(* new Matcha(config): the modules as their constructors leave them *)
NewKatex(present) ==
    [window |-> present, script |-> "none", listeners |-> 0, thens |-> 0,
     resolved |-> present, resolver |-> ~present, scheduled |-> FALSE,
     micro |-> 0, dispatch |-> 0, rebuilds |-> 0]

NewApp(present) ==
    [slidesElements |-> <<>>, currentSlideIndex |-> 0, slideStates |-> EmptyMap,
     components |-> EmptyMap, globalComponentUsages |-> <<>>,
     slideComponentUsages |-> <<>>, activeInstances |-> <<>>,
     katex |-> NewKatex(present),
     globalVars |-> EmptyMap,
     instance |-> [modules |-> TRUE, bound |-> FALSE]]

(* Matcha.start: the modules' init, then parseAndBuild, bindEvents and     *)
(* goto(0)                                                                 *)
start(m, markdown) ==
    LET m1 == [m EXCEPT !.katex = _checkAndLoadKatex(@)]
        m2 == [parseAndBuild(m1, markdown) EXCEPT !.instance.bound = TRUE]
    IN  Only({goto(built, 0, "forward") : built \in {m2}})

NoFrames == [reveal1 |-> {}, reveal2 |-> {}, rerender |-> 0]

-----------------------------------------------------------------------------
(* Slides the disclosure state machine is exercised on: up to MaxChunks    *)
(* chunks holding up to MaxHl highlights between them, in one cell or      *)
(* spread over the two cells of a cols layout; a cell may also be blank    *)

Seqs(S, n) == [1..n -> S]

RECURSIVE CellOf(_)
CellOf(hls) ==
    IF Len(hls) = 0 THEN <<Text(TRUE, 0)>>
    ELSE IF Len(hls) = 1 THEN <<Text(FALSE, hls[1])>>
    ELSE <<Text(FALSE, hls[1]), StepMarker("", 0)>> \o CellOf(Tail(hls))

ChunkLists == UNION {Seqs(0..MaxHl, n) : n \in 0..MaxChunks}

RECURSIVE TotalChunks(_)
TotalChunks(lists) ==
    IF Len(lists) = 0 THEN 0 ELSE Len(lists[1]) + TotalChunks(Tail(lists))

RECURSIVE TotalHighlights(_)
TotalHighlights(lists) ==
    IF Len(lists) = 0 THEN 0 ELSE SumSeq(lists[1]) + TotalHighlights(Tail(lists))

CellCounts == {1, 2}

CellLists ==
    {ls \in UNION {Seqs(ChunkLists, n) : n \in CellCounts} :
        TotalChunks(ls) <= MaxChunks /\ TotalHighlights(ls) <= MaxHl}

SlideOf(ls) ==
    Slide(IF Len(ls) = 1 THEN "center" ELSE "cols", <<>>,
          [i \in 1..Len(ls) |-> CellOf(ls[i])])

FragSlides == {SlideOf(ls) : ls \in CellLists}

\* the chunks of a slide in document order, as their highlight counts

-----------------------------------------------------------------------------
(* History of the last operation, kept for the properties only:            *)
(*   op, idx  : the operation and the slide index it was called with       *)
(*   had      : slideStates had a state for idx when it was called         *)
(*   ret      : what it returned: true, false, undefined, the default      *)
(*              progress value or a state's, or that it threw              *)
(*   same     : it left the slideStates map as it was                      *)
(*   moved    : it changed (currentStep, currentHighlight)                 *)
(*   afterAll : for a nextStep, the operation before it was showAllSteps   *)
(*   undo     : for a prevStep, it directly follows a nextStep on the same *)
(*              slide that moved and did not itself follow a showAllSteps  *)
(*   pre      : for a nextStep, (currentStep, currentHighlight) before it; *)
(*              for a prevStep with undo, the pair before that nextStep    *)
(*   run      : nextStep calls since the last resetSlide of slide 0, -1    *)
(*              when another operation came between                        *)

RetB(b) == IF b THEN "true" ELSE "false"
RetT(r) == IF r.threw THEN "throws" ELSE RetB(r.ret)

Pair(states, i) ==
    IF Has(states, i) THEN <<states[i].currentStep, states[i].currentHighlight>>
    ELSE <<0, 0>>

RunCap == MaxChunks + MaxHl + 1

NoHist == [op |-> "start", idx |-> 0, had |-> FALSE, ret |-> "undefined",
           same |-> TRUE, moved |-> FALSE, afterAll |-> FALSE, undo |-> FALSE,
           pre |-> <<0, 0>>, run |-> -1]

Record(op, i, ret, before, after) ==
    LET undo == /\ op = "prevStep"
                /\ hist.op = "nextStep" /\ hist.idx = i
                /\ hist.moved /\ ~hist.afterAll
    IN  [op |-> op, idx |-> i, had |-> Has(before, i), ret |-> ret,
         same |-> before = after,
         moved |-> Pair(before, i) # Pair(after, i),
         afterAll |-> op = "nextStep" /\ hist.op = "showAllSteps" /\ hist.idx = i,
         undo |-> undo,
         pre |-> IF op = "nextStep" THEN Pair(before, i)
                 ELSE IF undo THEN hist.pre ELSE <<0, 0>>,
         run |-> IF i = 0 /\ op = "resetSlide" THEN 0
                 ELSE IF i = 0 /\ op = "nextStep" /\ hist.run >= 0
                      THEN (IF hist.run < RunCap THEN hist.run + 1 ELSE hist.run)
                 ELSE -1]

-----------------------------------------------------------------------------
(* SpecFrag: the Fragment API called directly on one built slide (index 0) *)
(* and on an index that has no recorded state (index 1)                    *)

SetApp(m) ==
    /\ slidesElements' = m.slidesElements
    /\ currentSlideIndex' = m.currentSlideIndex
    /\ slideStates' = m.slideStates
    /\ components' = m.components
    /\ globalComponentUsages' = m.globalComponentUsages
    /\ slideComponentUsages' = m.slideComponentUsages
    /\ activeInstances' = m.activeInstances
    /\ katex' = m.katex
    /\ globalVars' = m.globalVars
    /\ instance' = m.instance

InitApp(m) ==
    /\ slidesElements = m.slidesElements
    /\ currentSlideIndex = m.currentSlideIndex
    /\ slideStates = m.slideStates
    /\ components = m.components
    /\ globalComponentUsages = m.globalComponentUsages
    /\ slideComponentUsages = m.slideComponentUsages
    /\ activeInstances = m.activeInstances
    /\ katex = m.katex
    /\ globalVars = m.globalVars
    /\ instance = m.instance

FragIndexes == {0, 1}

InitFrag ==
    /\ source \in {Deck(<<>>, <<>>, <<>>, <<s>>) : s \in FragSlides}
    /\ \E m \in {start(NewApp(TRUE), source)} : InitApp(m)
    /\ frames = NoFrames
    /\ hist = NoHist

OnlyStates == <<source, slidesElements, currentSlideIndex, components,
                globalComponentUsages, slideComponentUsages, activeInstances, katex,
                globalVars, instance>>

DoNextStep(i) ==
    LET r == nextStep(slideStates, i) IN
    /\ slideStates' = r.states
    /\ frames' = IF r.raf = 0 THEN frames
                 ELSE [frames EXCEPT !.reveal1 = @ \cup {<<i, r.raf>>}]
    /\ hist' = Record("nextStep", i, RetT(r), slideStates, r.states)
    /\ UNCHANGED OnlyStates

DoPrevStep(i) ==
    LET r == prevStep(slideStates, i) IN
    /\ slideStates' = r.states
    /\ hist' = Record("prevStep", i, RetT(r), slideStates, r.states)
    /\ UNCHANGED <<OnlyStates, frames>>

DoResetSlide(i) ==
    /\ slideStates' = resetSlide(slideStates, i)
    /\ hist' = Record("resetSlide", i, "undefined", slideStates, slideStates')
    /\ UNCHANGED <<OnlyStates, frames>>

DoShowAllSteps(i) ==
    /\ slideStates' = showAllSteps(slideStates, i)
    /\ hist' = Record("showAllSteps", i, "undefined", slideStates, slideStates')
    /\ UNCHANGED <<OnlyStates, frames>>

DoHasNextStep(i) ==
    /\ hist' = Record("hasNextStep", i, RetB(hasNextStep(slideStates, i)),
                      slideStates, slideStates)
    /\ UNCHANGED <<OnlyStates, slideStates, frames>>

DoHasPrevStep(i) ==
    /\ hist' = Record("hasPrevStep", i, RetB(hasPrevStep(slideStates, i)),
                      slideStates, slideStates)
    /\ UNCHANGED <<OnlyStates, slideStates, frames>>

DoGetStepState(i) ==
    /\ hist' = Record("getStepState", i,
                      IF getStepState(slideStates, i).isDefault THEN "default" ELSE "state",
                      slideStates, slideStates)
    /\ UNCHANGED <<OnlyStates, slideStates, frames>>

\* the second of the two nested animation-frame callbacks of nextStep
Reveal(states, done) ==
    [i \in DOMAIN states |->
        [states[i] EXCEPT !.blocks = [b \in 1..Len(states[i].blocks) |->
            IF <<i, b>> \in done
            THEN AddCls(RemCls(states[i].blocks[b], {"step-entering"}), {"step-visible"})
            ELSE states[i].blocks[b]]]]

(* One animation frame: every pending callback runs *)
FragFrame ==
    /\ frames.reveal1 # {} \/ frames.reveal2 # {}
    /\ slideStates' = Reveal(slideStates, frames.reveal2)
    /\ frames' = [frames EXCEPT !.reveal1 = {}, !.reveal2 = frames.reveal1]
    /\ UNCHANGED <<OnlyStates, hist>>

NextFrag ==
    \/ \E i \in FragIndexes : DoNextStep(i)
    \/ \E i \in FragIndexes : DoPrevStep(i)
    \/ \E i \in FragIndexes : DoResetSlide(i)
    \/ \E i \in FragIndexes : DoShowAllSteps(i)
    \/ \E i \in FragIndexes : DoHasNextStep(i)
    \/ \E i \in FragIndexes : DoHasPrevStep(i)
    \/ \E i \in FragIndexes : DoGetStepState(i)
    \/ FragFrame

SpecFrag == InitFrag /\ [][NextFrag]_vars

-----------------------------------------------------------------------------
(* The canonical ordering of a slide's micro-steps: chunk 1 content,       *)
(* chunk 1 highlight 1, ..., chunk 2 content, ...                          *)

\* highlight counts of the non-blank chunks of a cell, in document order
RECURSIVE CellChunks(_)
CellChunks(cell) ==
    IF Len(cell) = 0 THEN <<>>
    ELSE IF Trimmed(cell[1]) THEN <<cell[1].hl>> \o CellChunks(Tail(cell))
    ELSE CellChunks(Tail(cell))

RECURSIVE CellsChunks(_)
CellsChunks(cells) ==
    IF Len(cells) = 0 THEN <<>>
    ELSE CellChunks(cells[1]) \o CellsChunks(Tail(cells))

\* the chunks (as highlight counts) of the one slide of a SpecFrag deck
SlideChunks == CellsChunks(source.slides[1].cells)

Micro(h) == Len(h) + SumSeq(h)

RECURSIVE RankOf(_, _, _)
RankOf(h, step, highlight) ==
    IF step <= 1 \/ Len(h) = 0 THEN 1 + highlight
    ELSE 1 + h[1] + RankOf(Tail(h), step - 1, highlight)

CanonicalPairs(h) == {<<c, k>> : c \in 1..Len(h), k \in 0..MaxHl} \cap
                     {p \in (1..Len(h)) \X (0..MaxHl) : p[2] <= h[p[1]]}

PairOfRank(h, r) == CHOOSE p \in CanonicalPairs(h) : RankOf(h, p[1], p[2]) = r

Built(i) == Has(slideStates, i) /\ slideStates[i].hasBlocks

-----------------------------------------------------------------------------
(* C1.  Micro-step completeness: after resetSlide, the k-th of the first   *)
(* N-1 nextStep calls (N the sum of 1 + h_i over the slide's chunks) puts  *)
(* the cursor on the pair of rank k+1 of the canonical ordering with       *)
(* currentMicroStep = k+1, and a further nextStep leaves the cursor on the *)
(* last pair.                                                              *)
C1_MicroStepCompleteness ==
    (hist.run >= 0 /\ Len(SlideChunks) > 0) =>
        LET h == SlideChunks
            n == Micro(h)
            k == IF hist.run < n THEN hist.run ELSE n - 1
        IN  /\ Pair(slideStates, 0) = PairOfRank(h, k + 1)
            /\ slideStates[0].currentMicroStep = k + 1

(* C2.  In every reachable state of a built slide currentMicroStep is the  *)
(* 1-based rank of (currentStep, currentHighlight) in the canonical        *)
(* ordering.                                                               *)
C2_MicroStepIsRank ==
    Built(0) =>
        slideStates[0].currentMicroStep =
            RankOf(SlideChunks, slideStates[0].currentStep,
                   slideStates[0].currentHighlight)

(* C3.  For every built slide, a slide whose residual content is blank     *)
(* included, 1 <= currentStep <= totalSteps and                            *)
(* 0 <= currentHighlight <= highlightsPerStep[currentStep-1].              *)
C3_CursorInRange ==
    Built(0) =>
        LET st == slideStates[0] IN
        /\ 1 <= st.currentStep /\ st.currentStep <= st.totalSteps
        /\ 0 <= st.currentHighlight
        /\ st.currentHighlight <= HighlightsAt(st, st.currentStep)

(* C4.  Inverse symmetry: a prevStep that directly follows a nextStep      *)
(* which moved the cursor (and did not itself follow a showAllSteps)       *)
(* restores the pair the nextStep started from; retreating into a chunk    *)
(* leaves it fully highlighted.                                            *)
C4_InverseSymmetry ==
    (hist.op = "prevStep" /\ hist.idx = 0 /\ hist.undo) =>
        /\ Pair(slideStates, 0) = hist.pre
        /\ hist.moved

\* a prevStep has undone a nextStep that revealed a chunk, going back into
\* a chunk with highlights
C4_Witness ==
    /\ hist.op = "prevStep" /\ hist.idx = 0 /\ hist.undo
    /\ hist.pre[2] > 0
    /\ hist.pre[2] = HighlightsAt(slideStates[0], hist.pre[1])
    /\ Pair(slideStates, 0) = hist.pre

(* C6.  nextStep returns false exactly when it is a no-op: every call that *)
(* moves the cursor returns true.                                          *)
C6_FalseIffNoOp ==
    (hist.op = "nextStep" /\ hist.had) =>
        (hist.ret = "false" <=> ~hist.moved)

(* C7.  State desynchronization: an operation called for a slide index     *)
(* that has no recorded state does not throw, returns false (or nothing,   *)
(* or the default progress value) and leaves the slideStates map as it     *)
(* was, creating no state for that index.                                  *)
C7_Desync ==
    (hist.op # "start" /\ ~hist.had) =>
        /\ hist.same
        /\ ~Has(slideStates, hist.idx)
        /\ hist.ret = CASE hist.op \in {"nextStep", "prevStep"} -> "false"
                        [] hist.op \in {"hasNextStep", "hasPrevStep"} -> "false"
                        [] hist.op = "getStepState" -> "default"
                        [] OTHER -> "undefined"

\* a cursor-moving operation was called for the index without state
C7_Witness ==
    /\ hist.op = "nextStep" /\ ~hist.had /\ hist.idx = 1
    /\ Built(0) /\ slideStates[0].currentStep > 1

\* the recorded state of slide 0 agrees with the chunks of the slide
StateMatchesChunks ==
    LET st == slideStates[0]
        h == SlideChunks
    IN  /\ st.totalSteps = Len(h)
        /\ Len(st.blocks) = Len(h)
        /\ Len(st.highlightsPerStep) = Len(h)
        /\ st.highlightsPerStep = h
        /\ st.totalMicroSteps = Micro(h)

(* C24.  After parseAndBuild the state recorded for a slide agrees with    *)
(* the slide's chunks whatever the layout, cells rendered by their own     *)
(* parseAndRender call included: totalSteps is the number of step blocks   *)
(* and the length of highlightsPerStep, highlightsPerStep[i] the number of *)
(* highlights of block i, totalMicroSteps the sum of 1 + highlightsPerStep *)
C24_StateMatchesChunks == Built(0) => StateMatchesChunks

\* the same for slides rendered by one parseAndRender call
C24_OnSingleCells ==
    (Built(0) /\ Len(source.slides[1].cells) = 1) => StateMatchesChunks

\* no animation-frame callback is pending
Settled == frames.reveal1 = {} /\ frames.reveal2 = {}

(* C25.  Chunk visibility matches the cursor under every interleaving of   *)
(* nextStep, prevStep, resetSlide, showAllSteps and the animation-frame    *)
(* callbacks that finish a reveal: once no callback is pending, a block is *)
(* marked visible iff its 1-based index is at most currentStep (after      *)
(* showAllSteps currentStep is the number of blocks), and no block is ever *)
(* marked both hidden and visible                                          *)
C25_VisibilityMatchesCursor ==
    Built(0) =>
        LET st == slideStates[0] IN
        \A i \in 1..Len(st.blocks) :
            /\ ~({"step-hidden", "step-visible"} \subseteq st.blocks[i].cls)
            /\ Settled => ("step-visible" \in st.blocks[i].cls <=> i <= st.currentStep)

\* the highlight spans marked active and the focus mode of slide 0 are
\* those of its cursor
FocusMatchesCursor ==
    LET st == slideStates[0] IN
    /\ Cardinality(st.active) <= 1
    /\ st.currentHighlight > 0 =>
          /\ st.active = {<<st.currentStep, st.currentHighlight>>}
          /\ st.focus
    /\ st.currentHighlight = 0 => (st.active = {} /\ ~st.focus)

(* C26.  Highlight focus matches the cursor: after any sequence of         *)
(* nextStep, prevStep, resetSlide and showAllSteps at most one highlight   *)
(* of the slide is active; when currentHighlight = k > 0 it is the k-th    *)
(* highlight of chunk currentStep and focus mode is on, when               *)
(* currentHighlight = 0 none is active and focus mode is off               *)
C26_FocusMatchesCursor == Built(0) => FocusMatchesCursor

\* the same for slides rendered by one parseAndRender call
C26_OnSingleCells ==
    (Built(0) /\ Len(source.slides[1].cells) = 1) => FocusMatchesCursor

-----------------------------------------------------------------------------
(* SpecApp: a Matcha instance after start(), driven by next(), prev() and  *)
(* goto(), while the KaTeX script the math module inserted loads (or       *)
(* fails to) and the source script may lose its last slide before the      *)
(* readiness rebuild reads it again                                        *)

\* one chunk with a highlight; two chunks without
AppSlides == {SlideOf(<<<<1>>>>), SlideOf(<<<<0, 0>>>>)}

DecksOf(slides) == {Deck(<<>>, <<>>, <<>>, sl) :
                       sl \in UNION {Seqs(slides, n) : n \in 0..MaxSlides}}

AppDecks == DecksOf(AppSlides)

AppHist(op, dir, entered, preIndex, prePair) ==
    [op |-> op, dir |-> dir, entered |-> entered,
     preIndex |-> preIndex, prePair |-> prePair]

\* the page loaded KaTeX itself before it started Matcha
InitApp0 ==
    /\ source \in AppDecks
    /\ \E m \in {start(NewApp(TRUE), source)} : InitApp(m)
    /\ frames = NoFrames
    /\ hist = AppHist("start", "forward", Len(slidesElements) > 0, 0, <<0, 0>>)

\* window.katex is missing when Matcha starts
InitMath ==
    /\ source \in AppDecks
    /\ \E m \in {start(NewApp(FALSE), source)} : InitApp(m)
    /\ frames = NoFrames
    /\ hist = AppHist("start", "forward", Len(slidesElements) > 0, 0, <<0, 0>>)

\* no load event is being dispatched and the microtask queue is empty
Idle == katex.dispatch = 0 /\ katex.micro = 0

(* a key, click or context-menu event, or a call of the API *)
Next_ ==
    /\ Idle
    /\ \E r \in {next(App)} :
       /\ SetApp(r.m)
       /\ frames' = IF r.raf[2] = 0 THEN frames
                    ELSE [frames EXCEPT !.reveal1 = @ \cup {r.raf}]
       /\ hist' = AppHist("next", "forward",
                          r.m.currentSlideIndex # currentSlideIndex, 0, <<0, 0>>)
    /\ UNCHANGED source

Prev_ ==
    /\ Idle
    /\ \E m \in {prev(App)} :
       /\ SetApp(m)
       /\ hist' = AppHist("prev", "backward",
                          m.currentSlideIndex # currentSlideIndex, 0, <<0, 0>>)
    /\ UNCHANGED <<source, frames>>

Goto(index, direction) ==
    /\ Idle
    /\ \E m \in {goto(App, index, direction)} : SetApp(m)
    /\ hist' = AppHist("goto", direction,
                       index >= 0 /\ index < Len(slidesElements), 0, <<0, 0>>)
    /\ UNCHANGED <<source, frames>>

(* the page drops the last slide from the source script's text *)
EditSource ==
    /\ Idle
    /\ Len(source.slides) > 0
    /\ katex.rebuilds = 0
    /\ source' = [source EXCEPT !.slides = SubSeq(@, 1, Len(@) - 1)]
    /\ UNCHANGED <<slidesElements, currentSlideIndex, slideStates, components,
                   globalComponentUsages, slideComponentUsages, activeInstances,
                   frames, katex, globalVars, instance, hist>>

AppUnchanged == <<source, slidesElements, currentSlideIndex, slideStates, components,
                  globalComponentUsages, slideComponentUsages, activeInstances,
                  globalVars, instance, hist>>

(* the load event of the KaTeX script: the script has defined window.katex *)
(* and the onload handler set by _checkAndLoadKatex runs first             *)
ScriptLoad ==
    /\ Idle
    /\ katex.script = "loading"
    /\ LET k1 == [katex EXCEPT !.window = TRUE, !.script = "loaded",
                               !.dispatch = katex.listeners]
           k2 == [Resolve(k1) EXCEPT !.resolver = FALSE]
           r == _onKatexReady(k2, frames)
       IN  katex' = r.katex /\ frames' = r.frames
    /\ UNCHANGED AppUnchanged

(* the error event of the KaTeX script *)
ScriptError ==
    /\ Idle
    /\ katex.script = "loading"
    /\ katex' = [katex EXCEPT !.script = "failed"]
    /\ UNCHANGED <<AppUnchanged, frames>>

(* a load listener added by a later _checkAndLoadKatex call *)
LoadListener ==
    /\ katex.dispatch > 0
    /\ LET k1 == IF katex.window THEN Resolve(katex) ELSE katex
           k2 == [k1 EXCEPT !.resolver = FALSE, !.dispatch = @ - 1]
           r == _onKatexReady(k2, frames)
       IN  katex' = r.katex /\ frames' = r.frames
    /\ UNCHANGED AppUnchanged

(* a continuation of the ready promise, added by postprocess *)
Microtask ==
    /\ katex.micro > 0
    /\ LET r == _onKatexReady([katex EXCEPT !.micro = @ - 1], frames)
       IN  katex' = r.katex /\ frames' = r.frames
    /\ UNCHANGED AppUnchanged

\* a rebuild callback that enters the slide backward
RerenderOnce_Backward(m, markdown) ==
    LET currentIndex == m.currentSlideIndex
        Show(built) ==
            goto(built,
                 IF currentIndex < Len(built.slidesElements) - 1
                 THEN currentIndex ELSE Len(built.slidesElements) - 1,
                 "backward")
        shown == CHOOSE s \in {Show(built) : built \in {parseAndBuild(m, markdown)}} : TRUE
    IN  [shown EXCEPT !.katex.scheduled = FALSE, !.katex.rebuilds = @ + 1]

(* MathSupport._onKatexReady, the callback it hands to                     *)
(* requestAnimationFrame                                                   *)
RerenderOnce(m, markdown) ==
    LET currentIndex == m.currentSlideIndex
        Show(built) ==
            goto(built,
                 IF currentIndex < Len(built.slidesElements) - 1
                 THEN currentIndex ELSE Len(built.slidesElements) - 1,
                 "forward")
        shown == CHOOSE s \in {Show(built) : built \in {parseAndBuild(m, markdown)}} : TRUE
    IN  [shown EXCEPT !.katex.scheduled = FALSE, !.katex.rebuilds = @ + 1]

\* the n rebuild callbacks of one animation frame, one after the other
RECURSIVE Rerender(_, _, _)
Rerender(m, markdown, n) ==
    IF n = 0 THEN m ELSE Rerender(RerenderOnce(m, markdown), markdown, n - 1)

(* One animation frame: every pending callback runs.  A rebuild replaces   *)
(* the step blocks of the slides it builds, so reveals still pending for   *)
(* them act on detached elements                                           *)
AnimationFrame ==
    /\ Idle
    /\ frames # NoFrames
    /\ \E m \in {Rerender([App EXCEPT !.slideStates = Reveal(@, frames.reveal2)],
                          source, frames.rerender)} :
          /\ SetApp(m)
          /\ frames' = [reveal1 |-> {},
                        reveal2 |-> IF frames.rerender = 0 THEN frames.reveal1
                                    ELSE {f \in frames.reveal1 :
                                             f[1] >= Len(m.slidesElements)},
                        rerender |-> 0]
          /\ hist' = IF frames.rerender = 0
                     THEN AppHist("frame", "forward", FALSE, 0, <<0, 0>>)
                     ELSE AppHist("rebuild", "forward", Len(m.slidesElements) > 0,
                                  currentSlideIndex,
                                  Pair(slideStates, currentSlideIndex))
    /\ UNCHANGED source

GotoArgs == -1..MaxSlides

NextApp ==
    \/ Next_
    \/ Prev_
    \/ \E i \in GotoArgs, d \in {"forward", "backward"} : Goto(i, d)
    \/ AnimationFrame

SpecApp == InitApp0 /\ [][NextApp]_vars

NextMath ==
    \/ Next_
    \/ Prev_
    \/ EditSource
    \/ ScriptLoad
    \/ ScriptError
    \/ LoadListener
    \/ Microtask
    \/ AnimationFrame

SpecMath == InitMath /\ [][NextMath]_vars

-----------------------------------------------------------------------------
(* SpecReg: parseAndBuild called again and again on documents that define  *)
(* and use components, with goto(0) showing the slide in between           *)

RegDefs == {Def("footer", <<W("A")>>, ""), Def("footer", <<W("B")>>, ""),
            Def("logo", <<W("A")>>, "top-left")}

RegDecks ==
    {Deck(gd, gu, sd, <<Slide("", su, <<CellOf(<<0>>)>>)>>) :
        gd \in UNION {Seqs(RegDefs, n) : n \in 0..MaxDefs},
        gu \in {<<>>, <<Use("footer", "")>>},
        sd \in {<<>>, <<Def("logo", <<W("B")>>, "")>>},
        su \in {<<>>, <<Use("logo", "top-right")>>}}

InitReg ==
    /\ source \in RegDecks
    /\ \E m \in {start(NewApp(TRUE), source)} : InitApp(m)
    /\ frames = NoFrames
    /\ hist = AppHist("start", "forward", TRUE, 0, <<0, 0>>)

CallParseAndBuild(markdown) ==
    /\ source' = markdown
    /\ \E m \in {parseAndBuild(App, markdown)} : SetApp(m)
    /\ hist' = AppHist("parseAndBuild", "forward", FALSE, 0, <<0, 0>>)
    /\ UNCHANGED frames

NextReg ==
    \/ \E d \in RegDecks : CallParseAndBuild(d)
    \/ Goto(0, "forward")

SpecReg == InitReg /\ [][NextReg]_vars

-----------------------------------------------------------------------------
(* Claims about entering a slide, the readiness rebuild and the registry   *)

AllVisible(st) ==
    \A b \in 1..Len(st.blocks) :
        /\ "step-visible" \in st.blocks[b].cls
        /\ "step-hidden" \notin st.blocks[b].cls

OnlyFirstVisible(st) ==
    \A b \in 1..Len(st.blocks) :
        IF b = 1 THEN "step-visible" \in st.blocks[b].cls
        ELSE "step-visible" \notin st.blocks[b].cls

Current == slideStates[currentSlideIndex]

(* C5: a slide entered by goto with direction backward (prev() crossing a  *)
(* slide boundary included) has all its chunks visible, no highlight       *)
(* active, currentHighlight = 0, currentStep = totalSteps and              *)
(* currentMicroStep = totalMicroSteps; a slide entered with direction      *)
(* forward has only chunk 1 visible and its cursor at the first micro-step *)
C5_EnterSlide ==
    (hist.op \in {"start", "goto", "next", "prev"} /\ hist.entered) =>
        /\ Has(slideStates, currentSlideIndex)
        /\ Current.active = {}
        /\ Current.currentHighlight = 0
        /\ IF hist.dir = "backward"
           THEN /\ AllVisible(Current)
                /\ Current.currentStep = Current.totalSteps
                /\ Current.currentMicroStep = Current.totalMicroSteps
           ELSE /\ OnlyFirstVisible(Current)
                /\ Current.currentStep = 1
                /\ Current.currentMicroStep = 1

C5_Witness ==
    /\ hist.op = "prev" /\ hist.entered
    /\ Len(Current.blocks) = 2
    /\ AllVisible(Current)
    /\ Current.currentStep = 2

(* C8: one KaTeX load causes exactly one rebuild, however many readiness   *)
(* callbacks fire and in whatever order: never more than one rebuild is    *)
(* scheduled or performed, and once the load has been handled and the      *)
(* frame has run exactly one parseAndBuild has been performed              *)
C8_RebuildOnce ==
    /\ frames.rerender <= 1
    /\ katex.rebuilds <= 1
    /\ katex.rebuilds + frames.rerender > 0 => katex.script = "loaded"
    /\ (katex.script = "loaded" /\ Idle /\ frames.rerender = 0) => katex.rebuilds = 1

C8_Witness ==
    /\ katex.rebuilds = 1
    /\ katex.listeners >= 2
    /\ Idle /\ frames.rerender = 0

\* the position held before the rebuild exists in the rebuilt deck
StillValid ==
    /\ hist.preIndex < Len(slidesElements)
    /\ Has(slideStates, hist.preIndex)
    /\ hist.prePair[1] <= slideStates[hist.preIndex].totalSteps
    /\ hist.prePair[2] <= HighlightsAt(slideStates[hist.preIndex], hist.prePair[1])

(* C9 as stated: after the readiness rebuild the viewer is on the slide    *)
(* and at the (currentStep, currentHighlight) held before it whenever that *)
(* position is still valid, and otherwise on the last valid slide          *)
C9_RestoresPosition ==
    (hist.op = "rebuild" /\ Len(slidesElements) > 0) =>
        IF StillValid
        THEN /\ currentSlideIndex = hist.preIndex
             /\ Pair(slideStates, currentSlideIndex) = hist.prePair
        ELSE currentSlideIndex = Len(slidesElements) - 1

(* C9 amended: after the readiness rebuild the viewer is on the slide it   *)
(* was on, or on the last slide when the deck no longer reaches that far,  *)
(* and always at that slide's first micro-step (1, 0) with only chunk 1    *)
(* visible; a rebuild that yields no slide leaves the index as it was      *)
C9_RebuildFirstMicroStep ==
    hist.op = "rebuild" =>
        IF Len(slidesElements) = 0 THEN currentSlideIndex = hist.preIndex
        ELSE /\ currentSlideIndex = IF hist.preIndex < Len(slidesElements) - 1
                                    THEN hist.preIndex ELSE Len(slidesElements) - 1
             /\ Pair(slideStates, currentSlideIndex) = <<1, 0>>
             /\ Current.currentMicroStep = 1
             /\ OnlyFirstVisible(Current)

C9_Witness ==
    /\ hist.op = "rebuild"
    /\ StillValid
    /\ hist.prePair # <<1, 0>>
    /\ currentSlideIndex = hist.preIndex
    /\ Pair(slideStates, currentSlideIndex) = <<1, 0>>

\* the definitions of a document in the order extractDefinitions meets them
DocDefs(markdown) == markdown.gdefs \o markdown.sdefs

DefinedNames(markdown) == {DocDefs(markdown)[i].name : i \in 1..Len(DocDefs(markdown))}

(* C10: after any sequence of parseAndBuild calls the registry holds       *)
(* exactly the definitions of the latest build's document, none surviving  *)
(* from an earlier build                                                   *)
C10_RegistryWholesale == DOMAIN components = DefinedNames(source)

-----------------------------------------------------------------------------
(* SpecComp: a deck whose slides use components, shown slide by slide      *)
(* while the page sets global variables and calls processSlide             *)

CompDefs ==
    <<Def("footer", <<Var("$slideNumber"), P("/"), Var("$totalSlides")>>, ""),
      Def("logo", <<Var("$slideIndex"), P(":"), Var("author")>>, "top-left")>>

\* $slideNumber=9
Spoof == <<P("$"), W("slideNumber"), P("="), W("9")>>

\* author="x", position=left
Signed == <<W("author"), P("="), P("\""), W("x"), P("\""), P(","), P(" "),
            W("position"), P("="), W("left")>>

CompHeads == {<<>>, <<Use("ghost", ""), UseWith("logo", Signed)>>}

CompCells == {<<Text(FALSE, 0)>>,
              <<Text(FALSE, 0), UseWith("footer", Spoof), Text(FALSE, 1)>>}

CompSlides == {Slide("", u, <<c>>) : u \in CompHeads, c \in CompCells}

CompGlobals == {<<>>, <<Use("ghost", "top-left"), Use("footer", "top-left")>>}

CompDecks ==
    {Deck(CompDefs, gu, <<>>, sl) :
        gu \in CompGlobals,
        sl \in UNION {Seqs(CompSlides, n) : n \in 1..MaxSlides}}

GlobalNames == {"$slideNumber", "author"}

\* every variable but source and hist
Machine == <<slidesElements, currentSlideIndex, slideStates, components,
             globalComponentUsages, slideComponentUsages, activeInstances, frames,
             katex, globalVars, instance>>

InitComp ==
    /\ source \in CompDecks
    /\ \E m \in {start(NewApp(TRUE), source)} : InitApp(m)
    /\ frames = NoFrames
    /\ hist = AppHist("start", "forward", TRUE, 0, <<0, 0>>)

(* component.setGlobalVar(name, "9") *)
SetGlobalVar(name) ==
    /\ SetApp(setGlobalVar(App, name, Num(9)))
    /\ hist' = AppHist("setGlobalVar", "forward", FALSE, 0, <<0, 0>>)
    /\ UNCHANGED <<source, frames>>

\* the text of a slide block
BlockContent(slide) == slide.uses \o WholeBlock(slide.cells)

(* component.processSlide(block, k - 1, n) on the k-th block of the script *)
CallProcessSlide(k) ==
    /\ hist' = [op |-> "processSlide", content |-> BlockContent(source.slides[k]),
                result |-> processSlide(components, BlockContent(source.slides[k]),
                                        k - 1, Len(source.slides))]
    /\ UNCHANGED <<source, Machine>>

NextComp ==
    \/ \E name \in GlobalNames : SetGlobalVar(name)
    \/ \E index \in GotoArgs : Goto(index, "forward")
    \/ Prev_
    \/ \E k \in 1..Len(source.slides) : CallProcessSlide(k)

SpecComp == InitComp /\ [][NextComp]_vars

-----------------------------------------------------------------------------
(* Claims about navigation *)

\* the slide shown is marked active, the slides before it past, the ones
\* after it neither
Marked ==
    \A i \in 1..Len(slidesElements) :
        /\ "active" \in slidesElements[i] <=> i - 1 = currentSlideIndex
        /\ "past" \in slidesElements[i] <=> i - 1 < currentSlideIndex

\* the index, the slide classes, the disclosure states and the rendered
\* components stay as they are
NothingShownChanges ==
    UNCHANGED <<currentSlideIndex, slidesElements, slideStates, activeInstances,
                components>>

(* C15: on a deck with n >= 1 slides, after start() and any next(), prev() *)
(* and goto(k, dir) calls, 0 <= currentSlideIndex < n and exactly the      *)
(* slide at currentSlideIndex is active, the lower ones past; a goto with  *)
(* k < 0 or k >= n changes nothing                                         *)
C15_IndexInRange ==
    /\ [](Len(slidesElements) >= 1 =>
            /\ currentSlideIndex \in 0..(Len(slidesElements) - 1)
            /\ Marked)
    /\ [][(hist'.op = "goto" /\ ~hist'.entered) => NothingShownChanges]_vars

\* a goto was refused on the second slide of a deck of two
C15_Witness ==
    /\ hist.op = "goto" /\ ~hist.entered
    /\ Len(slidesElements) = 2
    /\ currentSlideIndex = 1

-----------------------------------------------------------------------------
(* SpecRun: after start() the page navigates freely with next(), prev()    *)
(* and goto(), and from some moment on only calls next(), again and again  *)

\* the slides of SpecApp, and two columns of which the second has a highlight
RunSlides == AppSlides \cup {SlideOf(<<<<0>>, <<1>>>>)}

RunDecks == {Deck(<<>>, <<>>, <<>>, sl) :
                sl \in UNION {Seqs(RunSlides, n) : n \in 1..MaxSlides}}

InitRun ==
    /\ source \in RunDecks
    /\ \E m \in {start(NewApp(TRUE), source)} : InitApp(m)
    /\ frames = NoFrames
    /\ hist = AppHist("start", "forward", TRUE, 0, <<0, 0>>)

\* the repeated calls have not begun
Free == hist.op # "run"

(* one of the repeated next() calls *)
RunNext ==
    /\ Idle
    /\ \E r \in {next(App)} :
          /\ SetApp(r.m)
          /\ frames' = IF r.raf[2] = 0 THEN frames
                       ELSE [frames EXCEPT !.reveal1 = @ \cup {r.raf}]
          /\ hist' = AppHist("run", "forward",
                             r.m.currentSlideIndex # currentSlideIndex,
                             currentSlideIndex, Pair(slideStates, currentSlideIndex))
    /\ UNCHANGED source

NextRun ==
    \/ Free /\ Next_
    \/ Free /\ Prev_
    \/ Free /\ \E i \in GotoArgs, d \in {"forward", "backward"} : Goto(i, d)
    \/ RunNext
    \/ FragFrame

\* next() keeps being called
SpecRun == InitRun /\ [][NextRun]_vars /\ WF_vars(RunNext)

\* the chunks of the slide at an index, as their highlight counts
ChunksAt(index) == CellsChunks(source.slides[index + 1].cells)

\* the last chunk of the slide shown, with all its highlights active
AtLastMicroStep ==
    LET h == ChunksAt(currentSlideIndex) IN
    /\ Built(currentSlideIndex)
    /\ Pair(slideStates, currentSlideIndex) = <<Len(h), h[Len(h)]>>

\* (slide n - 1, terminal-forward), where next() is a no-op
TerminalForward ==
    /\ currentSlideIndex = Len(slidesElements) - 1
    /\ AtLastMicroStep
    /\ next(App).m = App

\* what one more next() does in the state
NextStepsOn ==
    LET after == next(App).m IN
    /\ ~TerminalForward => after # App
    /\ after.currentSlideIndex \in {currentSlideIndex, currentSlideIndex + 1}
    /\ IF ~AtLastMicroStep
       THEN /\ after.currentSlideIndex = currentSlideIndex
            /\ Pair(after.slideStates, currentSlideIndex)
                  # Pair(slideStates, currentSlideIndex)
       ELSE currentSlideIndex < Len(slidesElements) - 1 =>
               /\ after.currentSlideIndex = currentSlideIndex + 1
               /\ Pair(after.slideStates, currentSlideIndex + 1) = <<1, 0>>

\* prev() on the first micro-step of slide 0
PrevAtStart ==
    (currentSlideIndex = 0 /\ Pair(slideStates, 0) = <<1, 0>>) => prev(App) = App

(* C16: next() moves to the next micro-step of the slide if there is one,  *)
(* else to the first micro-step of the next slide; repeated next() calls   *)
(* reach (slide n - 1, terminal-forward), where next() is a no-op, every   *)
(* call before that changes the state, and currentSlideIndex neither       *)
(* decreases nor skips a slide; prev() at (slide 0, first micro-step) is a *)
(* no-op                                                                   *)
C16_NextReachesTheEnd ==
    /\ [](NextStepsOn /\ PrevAtStart)
    /\ (hist.op = "run") ~> TerminalForward

\* every slide is rendered by one parseAndRender call
SingleCells == \A i \in 1..Len(source.slides) : Len(source.slides[i].cells) = 1

\* the same on decks without multi-cell layouts
C16_OnSingleCells ==
    /\ [](SingleCells => (NextStepsOn /\ PrevAtStart))
    /\ (SingleCells /\ hist.op = "run") ~> TerminalForward

-----------------------------------------------------------------------------
(* Claims about components *)

\* the three built-in variables hold the values of the slide shown
BuiltinsOf(vs, slideIndex, totalSlides) ==
    /\ vs["$slideIndex"] = Num(slideIndex)
    /\ vs["$slideNumber"] = Num(slideIndex + 1)
    /\ vs["$totalSlides"] = Num(totalSlides)

(* C11: in the variable context of every component instance shown,         *)
(* $slideIndex, $slideNumber and $totalSlides hold the values of the slide *)
(* being rendered, whatever global variables and usage params were given   *)
C11_BuiltinsWin ==
    \A j \in 1..Len(activeInstances) :
        BuiltinsOf(activeInstances[j].vars, currentSlideIndex, Len(slidesElements))

\* the part of C11 that the code keeps: usage params alone never replace
\* a built-in variable
C11_ParamsCannotSpoof ==
    (\A name \in DOMAIN globalVars : name \notin DOMAIN builtinVars(0, 0))
        => C11_BuiltinsWin

\* the position parameter a marker gives, "" when it gives none
RECURSIVE GivenPosition(_, _)
GivenPosition(paramsStr, i) ==
    IF i + 2 > Len(paramsStr) THEN ""
    ELSE IF paramsStr[i] = W("position") /\ paramsStr[i + 1] = P("=")
    THEN paramsStr[i + 2].a
    ELSE GivenPosition(paramsStr, i + 1)

Registered(content) ==
    SelectSeq(content, LAMBDA t : t.k = "use" /\ Has(components, t.name))

AllUsages(index) == globalComponentUsages \o slideComponentUsages[index + 1]

\* the instance of one usage on the slide, expanded with the built-in
\* variables of that slide
InstanceOf(usage, index) ==
    LET vs == Merge(Merge(globalVars, usage.params),
                    builtinVars(index, Len(slidesElements)))
    IN  [name |-> usage.name, position |-> usage.position, vars |-> vs,
         content |-> _renderTemplate(components[usage.name].template, vs)]

(* C13: after goto(i) with a valid i the active instances are the global   *)
(* usages followed by the usages of slide i, none left from another slide, *)
(* each expanded with $slideIndex = i, $slideNumber = i + 1 and            *)
(* $totalSlides = the number of slides                                     *)
C13_GlobalThenSlide ==
    (hist.op = "goto" /\ hist.entered) =>
        /\ Len(activeInstances) = Len(AllUsages(currentSlideIndex))
        /\ \A j \in 1..Len(activeInstances) :
             activeInstances[j] = InstanceOf(AllUsages(currentSlideIndex)[j],
                                             currentSlideIndex)

\* the same, as long as no global variable carries the name of a built-in
C13_UnlessSpoofed ==
    (\A name \in DOMAIN globalVars : name \notin DOMAIN builtinVars(0, 0))
        => C13_GlobalThenSlide

-----------------------------------------------------------------------------
(* SpecLife: the listeners bindEvents put on the document receive key,     *)
(* click and context-menu events while the page may call destroy()         *)

(* Matcha.destroy: the modules' destroy, then the module table and the     *)
(* slide list are emptied                                                  *)
destroy(m) ==
    [m EXCEPT !.slideStates = EmptyMap,
              !.activeInstances = <<>>,
              !.components = EmptyMap,
              !.globalVars = EmptyMap,
              !.instance.modules = FALSE,
              !.slidesElements = <<>>]

Keys == {"ArrowRight", "ArrowLeft", "Home", "End", "Escape"}

\* the method the keydown listener calls for a key
KeyCall(key) ==
    CASE key \in {"ArrowRight", "ArrowDown", " ", "Enter"} -> "next"
      [] key \in {"ArrowLeft", "ArrowUp"} -> "prev"
      [] key = "Home" -> "home"
      [] key = "End" -> "end"
      [] OTHER -> "none"

\* the click listener: a click in a link or a form control is left alone
ClickCall(inControl) == IF inControl THEN "none" ELSE "next"

\* the method a listener calls, run on the instance: next() and prev()
\* read this.modules.fragment, which is undefined once destroy() has
\* emptied the module table, and throw a TypeError
OnEvent(m, call) ==
    CASE call \in {"next", "prev"} /\ ~m.instance.modules ->
             [m |-> m, raf |-> <<0, 0>>, error |-> TRUE]
      [] call = "next" /\ m.instance.modules ->
             [m |-> next(m).m, raf |-> next(m).raf, error |-> FALSE]
      [] call = "prev" /\ m.instance.modules ->
             [m |-> prev(m), raf |-> <<0, 0>>, error |-> FALSE]
      [] call = "home" ->
             [m |-> goto(m, 0, "forward"), raf |-> <<0, 0>>, error |-> FALSE]
      [] call = "end" ->
             [m |-> goto(m, Len(m.slidesElements) - 1, "forward"),
              raf |-> <<0, 0>>, error |-> FALSE]
      [] OTHER -> [m |-> m, raf |-> <<0, 0>>, error |-> FALSE]

LifeHist(op, call, error, destroyed) ==
    [op |-> op, call |-> call, error |-> error, destroyed |-> destroyed]

InitLife ==
    /\ source \in AppDecks
    /\ \E m \in {start(NewApp(TRUE), source)} : InitApp(m)
    /\ frames = NoFrames
    /\ hist = LifeHist("start", "none", FALSE, FALSE)

\* a listener of the document runs
Dispatch(op, call) ==
    /\ instance.bound
    /\ \E r \in {OnEvent(App, call)} :
          /\ SetApp(r.m)
          /\ frames' = IF r.raf[2] = 0 THEN frames
                       ELSE [frames EXCEPT !.reveal1 = @ \cup {r.raf}]
          /\ hist' = LifeHist(op, call, r.error, ~instance.modules)
    /\ UNCHANGED source

KeyDown(key) == Dispatch("keydown", KeyCall(key))

Click(inControl) == Dispatch("click", ClickCall(inControl))

ContextMenu == Dispatch("contextmenu", "prev")

(* app.destroy() *)
Destroy ==
    /\ SetApp(destroy(App))
    /\ hist' = LifeHist("destroy", "none", FALSE, ~instance.modules)
    /\ UNCHANGED <<source, frames>>

NextLife ==
    \/ \E key \in Keys : KeyDown(key)
    \/ \E inControl \in BOOLEAN : Click(inControl)
    \/ ContextMenu
    \/ FragFrame
    \/ Destroy

SpecLife == InitLife /\ [][NextLife]_vars

(* C14: after destroy() a key, click or context-menu event calls neither   *)
(* next(), prev() nor goto() on the instance, and raises no error          *)
C14_DestroyUnbinds ==
    (hist.op \in {"keydown", "click", "contextmenu"} /\ hist.destroyed)
        => (hist.call = "none" /\ ~hist.error)

-----------------------------------------------------------------------------
(* SpecCode: decks of one slide that ends in a fenced code block (or an    *)
(* inline code span) whose text holds what reads as a step marker, a       *)
(* highlight or a usage marker                                             *)

\* the ``` line (or the backquote) that opens and closes the code
Fence == Text(FALSE, 0)

\* what the code may hold: plain text, text like Array<T>, <!-- step -->,
\* <!-- @logo -->
CodeTokens == {Text(FALSE, 0), Text(FALSE, 1), StepMarker("", 0), Use("logo", "")}

MaxCode == 2

CodeTexts == UNION {Seqs(CodeTokens, n) : n \in 1..MaxCode}

\* what precedes the code on the slide: nothing, or a chunk and a marker
Preambles == {<<>>, <<Text(FALSE, 0), StepMarker("", 0)>>}

CodeCell(before, code) == before \o <<Fence>> \o code \o <<Fence>>

CodeDecks ==
    {Deck(CompDefs, <<>>, <<>>, <<Slide("", <<>>, <<CodeCell(before, code)>>)>>) :
        before \in Preambles, code \in CodeTexts}

InitCode ==
    /\ source \in CodeDecks
    /\ \E m \in {start(NewApp(TRUE), source)} : InitApp(m)
    /\ frames = NoFrames
    /\ hist = AppHist("start", "forward", TRUE, 0, <<0, 0>>)

NextCode ==
    \/ Next_
    \/ Prev_
    \/ FragFrame
    \/ CallProcessSlide(1)

SpecCode == InitCode /\ [][NextCode]_vars

\* the preamble of the slide of a SpecCode deck
PreambleOf(cell) ==
    IF Len(cell) >= 2 /\ cell[2].k = "step" THEN SubSeq(cell, 1, 2) ELSE <<>>

\* the deck with the text of its code replaced by one plain text
WithPlainCode(markdown) ==
    [markdown EXCEPT !.slides[1].cells[1] =
        CodeCell(PreambleOf(@), <<Text(FALSE, 0)>>)]

\* what start() builds when the code holds nothing that reads as a directive
PlainBuild == start(NewApp(TRUE), WithPlainCode(source))

(* C17: a step marker, highlight marker or usage marker inside a fenced    *)
(* code block or an inline code span creates no chunk boundary, counts as  *)
(* no highlight (adds no micro-step) and records no usage, and the code's  *)
(* text reaches the output unchanged                                       *)
C17_CodeIsInert ==
    /\ slideStates[0].totalSteps = PlainBuild.slideStates[0].totalSteps
    /\ slideStates[0].totalMicroSteps = PlainBuild.slideStates[0].totalMicroSteps
    /\ slideComponentUsages = PlainBuild.slideComponentUsages
    /\ hist.op = "processSlide" => hist.result.cleanContent = hist.content

-----------------------------------------------------------------------------
(* SpecTpl: _renderTemplate applied to templates that hold a variable at   *)
(* top level or inside a construct body, and to templates that nest a      *)
(* construct in a construct of its kind                                    *)

\* values a variable may carry: plain text, {{x}}, {{#if x}}T{{/if}},
\* {{#repeat 2}}R{{/repeat}}
TplValues == {<<W("plain")>>,
              <<Var("x")>>,
              <<Open("if", "x", <<>>), W("T"), Close("if")>>,
              <<Open("repeat", "2", <<>>), W("R"), Close("repeat")>>}

Kinds == {"repeat", "eq", "neq", "if", "gt", "lt"}

MaxCount == 2

TplInputs == [value : TplValues, kind : Kinds,
              outer : 1..MaxCount, inner : 1..MaxCount,
              a : BOOLEAN, b : BOOLEAN]

\* "1" for true, "0" for false
Flag(on) == IF on THEN Num(1) ELSE Num(0)

\* the variable context: v carries the value, x is 1
Ctx(in) ==
    Put(Put(Put(Put(EmptyMap, "v", in.value), "x", Num(1)), "a", Flag(in.a)),
        "b", Flag(in.b))

\* an opener of the kind whose body is expanded once when x is 1
OpenOnce(kind) ==
    CASE kind = "repeat" -> Open("repeat", "1", <<>>)
      [] kind = "eq" -> Open("eq", "x", Num(1))
      [] kind = "neq" -> Open("neq", "x", Num(2))
      [] kind = "if" -> Open("if", "x", <<>>)
      [] kind = "gt" -> Open("gt", "x", Num(0))
      [] kind = "lt" -> Open("lt", "x", Num(5))

\* {{v}} inside a construct body
InBody(kind) == <<OpenOnce(kind), Var("v"), Close(kind)>>

\* {{#repeat M}}a{{#repeat N}}{{$i}}{{/repeat}}c{{/repeat}}
NestedRepeat(outer, inner) ==
    <<Open("repeat", ToString(outer), <<>>), W("a"),
      Open("repeat", ToString(inner), <<>>), Var("$i"), Close("repeat"),
      W("c"), Close("repeat")>>

\* {{#if a}}P{{#if b}}x{{/if}}Q{{/if}}
NestedIf ==
    <<Open("if", "a", <<>>), W("P"), Open("if", "b", <<>>), W("x"), Close("if"),
      W("Q"), Close("if")>>

InitTpl ==
    /\ source \in TplInputs
    /\ InitApp(NewApp(TRUE))
    /\ frames = NoFrames
    /\ hist = [op |-> "none"]

ExpandValue ==
    /\ hist' = [op |-> "value",
                top |-> _renderTemplate(<<Var("v")>>, Ctx(source)),
                inBody |-> _renderTemplate(InBody(source.kind), Ctx(source))]
    /\ UNCHANGED <<source, Machine>>

ExpandRepeats ==
    /\ hist' = [op |-> "repeat",
                result |-> _renderTemplate(NestedRepeat(source.outer, source.inner),
                                           Ctx(source))]
    /\ UNCHANGED <<source, Machine>>

ExpandIfs ==
    /\ hist' = [op |-> "if", result |-> _renderTemplate(NestedIf, Ctx(source))]
    /\ UNCHANGED <<source, Machine>>

NextTpl == ExpandValue \/ ExpandRepeats \/ ExpandIfs

SpecTpl == InitTpl /\ [][NextTpl]_vars

(* C19: text emitted by expanding a construct body, a variable's value in  *)
(* particular, is literal in the output and is not read again as a         *)
(* construct or a variable by the later passes of the enclosing call: a    *)
(* value expands the same way at top level and inside a construct body     *)
C19_NoReopening == hist.op = "value" => hist.inBody = hist.top

\* the numbers 1, ..., n
RECURSIVE CountTo(_, _)
CountTo(i, n) == IF i > n THEN <<>> ELSE Num(i) \o CountTo(i + 1, n)

\* n copies of a string
RECURSIVE Copies(_, _)
Copies(n, str) == IF n <= 0 THEN <<>> ELSE str \o Copies(n - 1, str)

(* C20: constructs nest in a construct of their own kind: the body of an   *)
(* inner {{#repeat N}} is emitted N times per outer iteration with the     *)
(* inner loop's own $i, and in {{#if a}}..{{#if b}}x{{/if}}..{{/if}} each  *)
(* opener is paired with its own closer                                    *)
C20_SameKindNesting ==
    /\ hist.op = "repeat" =>
          hist.result = Copies(source.outer,
                               <<W("a")>> \o CountTo(1, source.inner) \o <<W("c")>>)
    /\ hist.op = "if" =>
          hist.result = IF ~source.a THEN <<>>
                        ELSE <<W("P")>> \o (IF source.b THEN <<W("x")>> ELSE <<>>)
                                 \o <<W("Q")>>

-----------------------------------------------------------------------------
(* SpecFrame: the Fragment operations and queries called for any slide     *)
(* index of a deck of up to MaxSlides slides, between next(), prev() and   *)
(* goto() of the Matcha instance and the animation frames                  *)

StepOps == {"nextStep", "prevStep", "resetSlide", "showAllSteps"}
Queries == {"hasSteps", "hasNextStep", "hasPrevStep", "getStepState"}
NavOps == {"next", "prev", "goto"}

\* two chunks, the second with a highlight, in one cell and in two columns
FrameSlides == {SlideOf(<<<<0, 1>>>>), SlideOf(<<<<0>>, <<1>>>>)}

\* decks of two slides, the second of one chunk with a highlight
FrameDecks == {Deck(<<>>, <<>>, <<>>, <<s, SlideOf(<<<<1>>>>)>>) : s \in FrameSlides}

\* the slide indexes the operations are called with: the two slides of a
\* deck and an index without slide
FrameIndexes == {0, 1, 2}

\* the history of a call: the operation and its index argument
Stamp(op, i) == [op |-> op, idx |-> i]

InitFrame ==
    /\ source \in FrameDecks
    /\ \E m \in {start(NewApp(TRUE), source)} : InitApp(m)
    /\ frames = NoFrames
    /\ hist = Stamp("start", 0)

CallStep(op, i) ==
    /\ \E r \in {CASE op = "nextStep" -> nextStep(slideStates, i)
                    [] op = "prevStep" ->
                         [raf |-> 0] @@ prevStep(slideStates, i)
                    [] op = "resetSlide" ->
                         [states |-> resetSlide(slideStates, i), raf |-> 0]
                    [] op = "showAllSteps" ->
                         [states |-> showAllSteps(slideStates, i), raf |-> 0]} :
          /\ slideStates' = r.states
          /\ frames' = IF r.raf = 0 THEN frames
                       ELSE [frames EXCEPT !.reveal1 = @ \cup {<<i, r.raf>>}]
    /\ hist' = Stamp(op, i)
    /\ UNCHANGED OnlyStates

\* a query: it returns a value and assigns nothing
CallQuery(op, i) ==
    /\ \E ret \in {CASE op = "hasSteps" -> RetB(hasSteps(slideStates, i))
                      [] op = "hasNextStep" -> RetB(hasNextStep(slideStates, i))
                      [] op = "hasPrevStep" -> RetB(hasPrevStep(slideStates, i))
                      [] op = "getStepState" ->
                           IF getStepState(slideStates, i).isDefault
                           THEN "default" ELSE "state"} :
          hist' = Stamp(op, i)
    /\ UNCHANGED <<OnlyStates, slideStates, frames>>

CallNav(op, index, direction) ==
    /\ \E r \in {CASE op = "next" -> next(App)
                    [] op = "prev" -> [m |-> prev(App), raf |-> <<0, 0>>]
                    [] op = "goto" -> [m |-> goto(App, index, direction),
                                       raf |-> <<0, 0>>]} :
          /\ SetApp(r.m)
          /\ frames' = IF r.raf[2] = 0 THEN frames
                       ELSE [frames EXCEPT !.reveal1 = @ \cup {r.raf}]
    /\ hist' = Stamp(op, index)
    /\ UNCHANGED source

NextFrame ==
    \/ \E op \in StepOps, i \in FrameIndexes : CallStep(op, i)
    \/ \E op \in Queries, i \in FrameIndexes : CallQuery(op, i)
    \/ CallNav("next", 0, "forward")
    \/ CallNav("prev", 0, "backward")
    \/ \E index \in FrameIndexes, direction \in {"forward", "backward"} :
          CallNav("goto", index, direction)
    \/ FragFrame

SpecFrame == InitFrame /\ [][NextFrame]_vars

\* the step of an animation frame: the callbacks waiting for the first of
\* their two frames are gone, while a call leaves them or adds one
IsFrame == frames' # frames /\ frames'.reveal1 = {}

\* the step of a call of one of the operations
Called(ops) == ~IsFrame /\ hist'.op \in ops

\* the disclosure state of every slide but those of the indexes is as it was
OnlySlides(indexes) ==
    /\ DOMAIN slideStates' = DOMAIN slideStates
    /\ \A j \in DOMAIN slideStates :
          j \notin indexes => slideStates'[j] = slideStates[j]

(* C28: frame conditions: the queries hasSteps, hasNextStep, hasPrevStep   *)
(* and getStepState change no state; nextStep(i), prevStep(i),             *)
(* resetSlide(i) and showAllSteps(i) change the disclosure state of slide  *)
(* i only; goto(), next() and prev() leave the disclosure state of every   *)
(* slide but the one they act on or enter as it was, so a slide left       *)
(* mid-way keeps its cursor until it is entered again                      *)
C28_Frame ==
    [][/\ Called(Queries) => UNCHANGED <<source, Machine, frames>>
       /\ Called(StepOps) => (OnlySlides({hist'.idx}) /\ UNCHANGED OnlyStates)
       /\ Called(NavOps) => OnlySlides({currentSlideIndex, currentSlideIndex'})]_vars

\* a slide left mid-way, on its second micro-step, while another is shown
C28_Witness ==
    /\ hist.op = "goto" /\ currentSlideIndex = 1
    /\ Pair(slideStates, 0) \notin {<<1, 0>>, <<0, 0>>}
    /\ Pair(slideStates, 1) = <<1, 0>>

\* the call changes the cursor of the slide
Moves(at) == Pair(slideStates', at) # Pair(slideStates, at)

\* next() and prev(), can being what the query said before the call: a
\* step of the slide shown when can, none on it otherwise
NavAgrees(can) ==
    IF can THEN currentSlideIndex' = currentSlideIndex /\ Moves(currentSlideIndex)
    ELSE ~Moves(currentSlideIndex) \/ currentSlideIndex' # currentSlideIndex

(* C29: the queries agree with the transitions: on a built slide           *)
(* hasNextStep(i) holds iff nextStep(i) changes (currentStep,              *)
(* currentHighlight) and hasPrevStep(i) iff prevStep(i) changes it; so     *)
(* next() and prev() make a step whenever one remains in their direction,  *)
(* never one that does nothing, and leave the slide only when none remains *)
C29_QueriesAgree ==
    [][/\ (Called({"nextStep"}) /\ Built(hist'.idx)) =>
             (hasNextStep(slideStates, hist'.idx) <=> Moves(hist'.idx))
       /\ (Called({"prevStep"}) /\ Built(hist'.idx)) =>
             (hasPrevStep(slideStates, hist'.idx) <=> Moves(hist'.idx))
       /\ Called({"next"}) => NavAgrees(hasNextStep(slideStates, currentSlideIndex))
       /\ Called({"prev"}) => NavAgrees(hasPrevStep(slideStates, currentSlideIndex))]_vars

\* next() has stepped to the highlight of the last block of the first slide
C29_Witness ==
    /\ hist.op = "next" /\ currentSlideIndex = 0
    /\ Pair(slideStates, 0) = <<2, 1>>
    /\ ~hasNextStep(slideStates, 0)

-----------------------------------------------------------------------------
(* SpecRebuild: parseAndBuild called again on the document Matcha started  *)
(* with, between navigation calls and animation frames. The documents      *)
(* define components before and after the ---global separator and use      *)
(* them in the global section and on the first slide                       *)

RebuildGlobalDefs == {<<>>, <<Def("footer", <<W("A")>>, "")>>,
                      <<Def("logo", <<W("A")>>, "top-left")>>}

RebuildGlobalUses == {<<>>, <<Use("logo", "")>>,
                      <<Use("footer", ""), Use("logo", "")>>}

RebuildSlideDefs == {<<>>, <<Def("logo", <<W("B")>>, "")>>}

RebuildSlideUses == {<<>>, <<Use("logo", "top-right")>>, <<Use("footer", "")>>}

\* decks of two slides: the first of two chunks, the second with a
\* highlight, and the second of one chunk with a highlight
RebuildDecks ==
    {Deck(gd, gu, sd, <<Slide("center", su, <<CellOf(<<0, 1>>)>>),
                        SlideOf(<<<<1>>>>)>>) :
        gd \in RebuildGlobalDefs, gu \in RebuildGlobalUses,
        sd \in RebuildSlideDefs, su \in RebuildSlideUses}

InitRebuild ==
    /\ source \in RebuildDecks
    /\ \E m \in {start(NewApp(TRUE), source)} : InitApp(m)
    /\ frames = NoFrames
    /\ hist = Stamp("start", 0)

NextRebuild ==
    \/ CallParseAndBuild(source)
    \/ CallNav("next", 0, "forward")
    \/ CallNav("prev", 0, "backward")
    \/ \E index \in {0, 1} : CallNav("goto", index, "forward")
    \/ FragFrame

SpecRebuild == InitRebuild /\ [][NextRebuild]_vars

\* what the first build of the document left, on the instance start made
FirstBuild == parseAndBuild(NewApp(TRUE), source)

\* the slides and the per-slide usages of the first build
SameSlides(first) ==
    /\ Len(slidesElements) = Len(first.slidesElements)
    /\ slideComponentUsages = first.slideComponentUsages

\* the disclosure state every slide had after the first build
SameDisclosure(first) == slideStates = first.slideStates

(* C30: a parseAndBuild of the unchanged document leaves as many slides,   *)
(* the same global usages, the same usages per slide and the same          *)
(* disclosure state of every slide as the first build of that document did *)
C30_RebuildIdempotent ==
    [][Called({"parseAndBuild"}) =>
        \A first \in {FirstBuild} :
            /\ SameSlides(first)'
            /\ globalComponentUsages' = first.globalComponentUsages
            /\ SameDisclosure(first)']_vars

\* the names of a sequence of definitions or of usage markers
NamesOf(items) == {items[i].name : i \in 1..Len(items)}

\* a usage marker of the global section names a component that only the
\* slides section defines
GlobalUseOfSlideDef(markdown) ==
    (NamesOf(markdown.guses) \cap NamesOf(markdown.sdefs))
        \ NamesOf(markdown.gdefs) # {}

(* C30 without the global usages of components defined after ---global:    *)
(* the slides, the usages per slide and the disclosure states are those of *)
(* the first build, and so are the global usages of a document whose       *)
(* global markers name no component that only the slides section defines   *)
C30_ButLateDefinitions ==
    [][Called({"parseAndBuild"}) =>
        \A first \in {FirstBuild} :
            /\ SameSlides(first)'
            /\ SameDisclosure(first)'
            /\ ~GlobalUseOfSlideDef(source) =>
                  globalComponentUsages' = first.globalComponentUsages]_vars

-----------------------------------------------------------------------------
(* SpecCard: Card.parse applied to texts of up to MaxLines lines, each a   *)
(* card marker (bare or with parameters), an endcard marker, a line that   *)
(* holds both, or a line of text                                           *)

MaxLines == 3

CardLinePool ==
    {Line(TRUE, FALSE, <<>>, "<!-- card -->"),
     Line(TRUE, FALSE, <<W("shadow"), P("="), W("lg")>>, "<!-- card: shadow=lg -->"),
     Line(FALSE, TRUE, <<>>, "<!-- endcard -->"),
     Line(TRUE, TRUE, <<>>, "<!-- card --> x <!-- endcard -->"),
     Line(FALSE, FALSE, <<>>, "a"),
     Line(FALSE, FALSE, <<>>, "b")}

CardTexts == UNION {[1..n -> CardLinePool] : n \in 0..MaxLines}

InitCard ==
    /\ source \in CardTexts
    /\ InitApp(NewApp(TRUE))
    /\ frames = NoFrames
    /\ hist = [op |-> "none"]

\* Card.parse(text): it reads and assigns no field of the module
CallCardParse ==
    /\ hist.op = "none"
    /\ \E r \in {Card_parse(source)} : hist' = [op |-> "parse", result |-> r]
    /\ UNCHANGED <<source, Machine>>

NextCard == CallCardParse

SpecCard == InitCard /\ [][NextCard]_vars

\* the number of items of a kind in a result
CountOf(result, kind) == Cardinality({i \in 1..Len(result) : result[i].k = kind})

\* the cards open after the first n items of a result
OpenAfter(result, n) ==
    CountOf(SubSeq(result, 1, n), "open") - CountOf(SubSeq(result, 1, n), "close")

\* the lines of the input that reach the result, a card marker as the
\* wrapper it opens
RECURSIVE Kept(_)
Kept(lines) ==
    IF Len(lines) = 0 THEN <<>>
    ELSE (IF lines[1].card THEN <<CardOpen(Card_parseParams(lines[1].params))>>
          ELSE IF lines[1].endcard THEN <<>>
          ELSE <<lines[1]>>) \o Kept(Tail(lines))

(* C27: card markers are balanced by Card.parse whatever their order: the  *)
(* result has as many closing as opening wrappers, no close before its     *)
(* open, never two cards open at once (a card marker closes the open       *)
(* card), no trace of an endcard without opener, a close at the end of the *)
(* text for a card still open, and every line without marker unchanged and *)
(* in order                                                                *)
C27_CardsBalanced ==
    hist.op = "parse" =>
        LET result == hist.result IN
        /\ CountOf(result, "open") = CountOf(result, "close")
        /\ \A n \in 0..Len(result) : OpenAfter(result, n) \in {0, 1}
        /\ \A n \in 1..Len(result) :
              /\ result[n].k = "open" => OpenAfter(result, n - 1) = 0
              /\ result[n].k = "close" => OpenAfter(result, n - 1) = 1
        /\ CountOf(result, "open") =
              Cardinality({i \in 1..Len(source) : source[i].card})
        /\ SelectSeq(result, LAMBDA x : x.k # "close") = Kept(source)

\* an endcard without opener, a card, a second card and no endcard after it
C27_Witness ==
    /\ hist.op = "parse"
    /\ Len(source) = 3
    /\ ~source[1].card /\ source[1].endcard
    /\ source[2].card /\ source[3].card /\ ~source[3].endcard
    /\ Len(hist.result) = 4

-----------------------------------------------------------------------------
(* SpecSplit: Fragment.parseAndRender applied to contents of text runs     *)
(* (blank or not, with or without a highlight) and step markers (bare,     *)
(* with effect and duration, with duration=0)                              *)

MaxTokens == 3

SplitTokens == {Text(FALSE, 0), Text(FALSE, 1), Text(TRUE, 0), StepMarker("", 0),
                StepWith("slide-left", TRUE, 300), StepWith("", TRUE, 0)}

SplitContents == UNION {[1..n -> SplitTokens] : n \in 0..MaxTokens}

InitSplit ==
    /\ source \in SplitContents
    /\ InitApp(NewApp(TRUE))
    /\ frames = NoFrames
    /\ hist = [op |-> "none"]

\* parseAndRender(content, 0, renderFn) on a fresh Fragment
CallParseAndRender ==
    /\ hist.op = "none"
    /\ \E r \in {parseAndRender(source)} :
          /\ slideStates' = Put(slideStates, 0, r.state)
          /\ hist' = [op |-> "parseAndRender", html |-> r.html]
    /\ UNCHANGED <<source, slidesElements, currentSlideIndex, components,
                   globalComponentUsages, slideComponentUsages, activeInstances,
                   frames, katex, globalVars, instance>>

NextSplit == CallParseAndRender

SpecSplit == InitSplit /\ [][NextSplit]_vars

\* the chunk a segment of text gives after the marker mk (NoText when no
\* marker precedes it): none when the segment is blank
ChunkOf(seg, mk) ==
    IF seg.k = "none" \/ seg.blank THEN <<>>
    ELSE <<[effect |-> IF mk.k = "none" THEN "none"
                       ELSE IF mk.effect = "" THEN defaultEffect ELSE mk.effect,
            duration |-> IF mk.k = "none" THEN 0
                         ELSE IF mk.timed THEN mk.duration ELSE defaultDuration,
            marked |-> mk.k # "none",
            highlights |-> seg.hl]>>

\* the chunks of a content from position i on, seg being the text read
\* since the last marker mk
RECURSIVE ChunksFrom(_, _, _, _)
ChunksFrom(content, i, seg, mk) ==
    IF i > Len(content) THEN ChunkOf(seg, mk)
    ELSE IF content[i].k = "text"
    THEN ChunksFrom(content, i + 1, Join(seg, content[i]), mk)
    ELSE ChunkOf(seg, mk) \o ChunksFrom(content, i + 1, NoText, content[i])

\* the html has the chunks wanted, with their effects and durations
SplitAs(want) ==
    /\ Len(hist.html) = Len(want)
    /\ \A i \in 1..Len(want) :
          /\ hist.html[i].highlights = want[i].highlights
          /\ hist.html[i].effect = want[i].effect
          /\ want[i].marked => hist.html[i].duration = want[i].duration

(* C23: parseAndRender gives the non-blank segments between step markers   *)
(* as chunks in document order and no blank chunk; a chunk that no marker  *)
(* precedes has effect none, every other chunk has the effect and the      *)
(* duration of the marker just before it, the defaults when the marker     *)
(* gives none                                                              *)
C23_StepSplitting ==
    hist.op = "parseAndRender" => SplitAs(ChunksFrom(source, 1, NoText, NoText))

\* a marker in the content is written with duration=0
ZeroDuration == \E i \in 1..Len(source) :
                   source[i].k = "step" /\ source[i].timed /\ source[i].duration = 0

\* the content holds a marker
HasMarker == \E i \in 1..Len(source) : source[i].k = "step"

\* the same for contents that hold a marker and no duration=0
C23_WithMarkers ==
    (hist.op = "parseAndRender" /\ HasMarker /\ ~ZeroDuration)
        => SplitAs(ChunksFrom(source, 1, NoText, NoText))

-----------------------------------------------------------------------------
(* SpecLoop: _renderTemplate applied to {{#repeat N}} loops, N written as  *)
(* a number or as the variable n, in a context that holds n and $i or not  *)

\* N as it is written in the opener
CountExprs == {"0", "1", "2", "3", "-1", "n"}

\* the caller's contexts: n missing, numeric or not, $i supplied or not
LoopContexts ==
    LET ns == {EmptyMap} \cup {Put(EmptyMap, "n", <<W(t)>>) : t \in {"2", "abc", "0", "-1"}}
    IN  ns \cup {Put(c, "$i", Num(7)) : c \in ns}

LoopInputs == [count : CountExprs, vs : LoopContexts]

\* {{#repeat N}}#{{$i}}:{{$i0}} {{/repeat}}
Loop(count) ==
    <<Open("repeat", count, <<>>), P("#"), Var("$i"), P(":"), Var("$i0"), P(" "),
      Close("repeat")>>

\* {{$i}}{{#repeat A}}{{$i}}{{/repeat}}{{$i}}{{#repeat B}}{{$i0}}{{/repeat}}{{$i0}}
Scoped(a, b) ==
    <<Var("$i"), Open("repeat", ToString(a), <<>>), Var("$i"), Close("repeat"),
      Var("$i"), Open("repeat", ToString(b), <<>>), Var("$i0"), Close("repeat"),
      Var("$i0")>>

InitLoop ==
    /\ source \in LoopInputs
    /\ InitApp(NewApp(TRUE))
    /\ frames = NoFrames
    /\ hist = [op |-> "none"]

\* one call of _renderTemplate: it assigns no field of the component module
Render(op, template) ==
    /\ \E r \in {_renderTemplate(template, source.vs)} :
          hist' = [op |-> op, template |-> template, result |-> r,
                   first |-> IF hist.op = "none"
                             THEN [template |-> template, result |-> r]
                             ELSE hist.first]
    /\ UNCHANGED <<source, Machine>>

RenderLoop == Render("loop", Loop(source.count))

\* the template is built anew by every call
RenderScoped(a, b) ==
    /\ Render("scoped", Scoped(a, b))

\* the template of the first call once more, after the calls in between
RenderAgain ==
    /\ hist.op # "none"
    /\ Render("again", hist.first.template)

NextLoop ==
    \/ RenderLoop
    \/ \E a, b \in 0..MaxCount : RenderScoped(a, b)
    \/ RenderAgain

SpecLoop == InitLoop /\ [][NextLoop]_vars

\* the number a text stands for, 0 when it stands for none
IntOf(text) ==
    IF \E n \in -1..MaxNum : ToString(n) = text
    THEN CHOOSE n \in -1..MaxNum : ToString(n) = text
    ELSE 0

\* N of the loop: the number written, or the number the variable n holds
Wanted ==
    IF source.count # "n" THEN IntOf(source.count)
    ELSE IF Has(source.vs, "n") THEN IntOf(Str(source.vs["n"]))
    ELSE 0

\* #k:k-1 for k = from, ..., n
RECURSIVE Iterations(_, _)
Iterations(from, n) ==
    IF from > n THEN <<>>
    ELSE <<P("#")>> \o Num(from) \o <<P(":")>> \o Num(from - 1) \o <<P(" ")>>
             \o Iterations(from + 1, n)

(* C21: {{#repeat N}}body{{/repeat}}, N a number or a variable name, gives *)
(* the body expanded with $i = k and $i0 = k - 1 for k = 1, ..., N, one    *)
(* after the other, and nothing when N <= 0 or when N is a variable that   *)
(* is missing or holds no number                                           *)
C21_Repeat == hist.op = "loop" => hist.result = Iterations(1, Wanted)

\* the same for every N but a negative number written in the opener
C21_UnlessWrittenNegative ==
    (hist.op = "loop" /\ source.count # "-1") => hist.result = Iterations(1, Wanted)

\* {{$i}} or {{$i0}} outside a loop: the caller's value, or the placeholder
Outside(name) ==
    IF Has(source.vs, name) THEN source.vs[name] ELSE <<Var(name)>>

\* the numbers from, ..., to
RECURSIVE Numbers(_, _)
Numbers(from, to) == IF from > to THEN <<>> ELSE Num(from) \o Numbers(from + 1, to)

\* the counts written in the template of the last call
CountsOf(template) ==
    CHOOSE ab \in (0..MaxCount) \X (0..MaxCount) : Scoped(ab[1], ab[2]) = template

-----------------------------------------------------------------------------
(* SpecParams: the parameter parsers applied to parameter strings written  *)
(* as key=value pairs joined by ", ", a value bare or in quotes            *)

\* lg, rgba(0,0) and "a, b"
ParamValues == {<<W("lg")>>,
                <<W("rgba"), P("("), W("0"), P(","), W("0"), P(")")>>,
                <<W("a"), P(","), P(" "), W("b")>>}

ParamPairs == [key : {"bg", "shadow"}, quote : {"", "\"", "'"}, value : ParamValues]

PairText(pair) ==
    <<W(pair.key), P("=")>>
    \o (IF pair.quote = "" THEN <<>> ELSE <<P(pair.quote)>>)
    \o pair.value
    \o (IF pair.quote = "" THEN <<>> ELSE <<P(pair.quote)>>)

\* the parameter string the pairs are written as
RECURSIVE ParamText(_)
ParamText(pairs) ==
    IF Len(pairs) = 0 THEN <<>>
    ELSE IF Len(pairs) = 1 THEN PairText(pairs[1])
    ELSE PairText(pairs[1]) \o <<P(","), P(" ")>> \o ParamText(Tail(pairs))

InitParams ==
    /\ source \in UNION {Seqs(ParamPairs, n) : n \in 1..MaxPairs}
    /\ InitApp(NewApp(TRUE))
    /\ frames = NoFrames
    /\ hist = [op |-> "none", result |-> EmptyMap]

ParseComponentParams ==
    /\ hist' = [op |-> "component", result |-> _parseParams(ParamText(source))]
    /\ UNCHANGED <<source, Machine>>

ParseCardParams ==
    /\ hist' = [op |-> "card", result |-> Card_parseParams(ParamText(source))]
    /\ UNCHANGED <<source, Machine>>

NextParams == ParseComponentParams \/ ParseCardParams

SpecParams == InitParams /\ [][NextParams]_vars

\* the key a parser files a pair under
ResultKey(op, key) == IF op = "card" THEN <<W(key)>> ELSE key

\* pair j is the last one written for its key
LastForKey(j) == \A i \in (j + 1)..Len(source) : source[i].key # source[j].key

(* C18: every parameter parser keeps the commas inside a quoted value and  *)
(* goes on to parse the pairs that follow: each quoted pair (the last one  *)
(* written for its key) is in the result with its value verbatim, quotes   *)
(* stripped; this holds for the card parser as for the component parser    *)
C18_QuotedCommas ==
    hist.op # "none" =>
        \A j \in 1..Len(source) :
            (source[j].quote # "" /\ LastForKey(j)) =>
                /\ ResultKey(hist.op, source[j].key) \in DOMAIN hist.result
                /\ hist.result[ResultKey(hist.op, source[j].key)] = source[j].value

\* the same statement for the component parser alone
C18_ComponentOnly == hist.op = "card" \/ C18_QuotedCommas

====
